---- MODULE Spec2Model ----
(***************************************************************************)
(* Verification model of the decision core of project_volatire (reflex).   *)
(*                                                                         *)
(* Each component is a record variable whose fields carry the names of the *)
(* Rust struct fields.  Methods are operators from the old record to the   *)
(* new one; the actions below wrap them.  Every component has its own      *)
(* specification (SpecSequencer, SpecStaircase, ...) over the same         *)
(* variables; a component that a specification does not drive stays in its *)
(* constructed state.                                                      *)
(*                                                                         *)
(* Real numbers are scaled integers:                                       *)
(*   sizes and risk      x 10000   (0.01 lots = 100)                       *)
(*   sentiment           x 100     (-0.90 = -90)                           *)
(*   jerk                x 1000    (50.0 = 50000)                          *)
(*   efficiency, entropy x 100                                             *)
(*   omega ratio         x 10                                              *)
(* An Option<T> is a sequence of length 0 (None) or 1 (Some).              *)
(***************************************************************************)
EXTENDS Integers, Sequences, FiniteSets, TLC

VARIABLES
    sequencer,      \* Sequencer { counter }
    seq_log,        \* history: ids handed out, sequence ids of emitted psi-states
    staircase,      \* Staircase { current_tier, consecutive_tight_fills, ... }
    st_now,         \* Instant::now() as read by the staircase, in TimeUnit steps
    st_log,         \* history of the staircase calls
    ring,           \* the mapped region: RingHeader { head, tail, dropped } and the slots
    producer,       \* the thread inside ShmRingBuffer::write: position and locals
    consumer,       \* the thread inside ShmRingBuffer::read_batch: position and locals
    ring_log,       \* history: events published, events returned, writes started
    nullifier,      \* Nullifier { consecutive_failures, grave_buffer }
    null_log,       \* history of the current streak of firewall failures
    provisional,    \* ProvisionalExecutive { current_tier_index, ... }
    veto_gate,      \* VetoGate { last_sentiment_score, last_sentiment_time }
    ooda_now,       \* Instant::now() as read by the OODA core, in ticks of 5 minutes
    ooda_log,       \* the latest call of decide or update: inputs and result
    ignition,       \* IgnitionSequence { state, warmup_start, ... }
    sentinel,       \* Sentinel { status, last_instability }
    ign_now,        \* Instant::now() as read by ignition and sentinel, in minutes
    ign_log,        \* the latest ignition call and the gates passed since Hibernation
    authority_bridge, \* the AuthorityBridge the main loop polls (main.rs 383)
    server_bridge,  \* the AuthorityBridge whose sender the API server holds (main.rs 273)
    auth_log,       \* the latest call on a bridge or its channel
    main,           \* the main loop: running, shared state, graves
    rebalancer,     \* Rebalancer { fidelity, start_equity }
    main_log,       \* the latest cycle of the main loop: inputs and what it did
    shadow_gate,    \* ShadowGate { virtual_book }
    shadow_now,     \* SystemTime::now() as read by the shadow gate, in steps of 250 ms
    physics_engine, \* PhysicsEngine { history (prices), count, prev_state }
    physics_tape,   \* the price series the market feeds, once the first tick came
    psi,            \* the state the latest feynman.update returned
    regime_detector,\* RegimeDetector
    regime_log,     \* the latest call on the regime detector
    sentinel_history,\* Sentinel { history }: the cycle times of the ring
    vitality_log,   \* the jitter the latest measured tick computed
    side_channels,  \* the packets in the forensic, mirror and decay channels
    decay_fill_rx,  \* the fills in the decay monitor's second channel
    decay_monitor,  \* DecayMonitor { pending_decisions, trade_window, rolling_decay }
    fanned_out,     \* the trace ids whose Buy or Sell packet was sent to the monitor
    fan_log,        \* the latest decide or act of the core, as the channels saw it
    decay_log,      \* the latest packet the decay monitor took
    shadow_log      \* the latest call of act or check_fills; call alternates
                    \* between 0 and 1 from one call to the next

vars == <<sequencer, seq_log, staircase, st_now, st_log,
          ring, producer, consumer, ring_log, nullifier, null_log,
          provisional, veto_gate, ooda_now, ooda_log,
          ignition, sentinel, ign_now, ign_log,
          authority_bridge, server_bridge, auth_log, main, rebalancer, main_log,
          shadow_gate, shadow_now, shadow_log, physics_engine, physics_tape, psi,
          regime_detector, regime_log, sentinel_history, vitality_log,
          side_channels, decay_fill_rx, decay_monitor, fanned_out, fan_log, decay_log>>

seq_vars == <<sequencer, seq_log>>

st_vars == <<staircase, st_now, st_log>>

ring_vars == <<ring, producer, consumer, ring_log>>

null_vars == <<nullifier, null_log>>

ooda_vars == <<provisional, veto_gate, ooda_now, ooda_log>>

ign_vars == <<ignition, sentinel, ign_now, ign_log>>

auth_vars == <<authority_bridge, server_bridge, auth_log>>

main_vars == <<main, rebalancer, main_log>>

shadow_vars == <<shadow_gate, shadow_now, shadow_log>>

physics_vars == <<physics_engine, physics_tape, psi>>

regime_vars == <<regime_detector, regime_log>>

vitality_vars == <<sentinel_history, vitality_log>>

fanout_vars ==
    <<side_channels, decay_fill_rx, decay_monitor, fanned_out, fan_log, decay_log>>

\* The variables a component's actions leave alone.
NotSequencer ==
    <<st_vars, ring_vars, null_vars, ooda_vars, ign_vars, auth_vars, main_vars, shadow_vars, physics_vars, regime_vars, vitality_vars, fanout_vars>>

NotStaircase ==
    <<seq_vars, ring_vars, null_vars, ooda_vars, ign_vars, auth_vars, main_vars, shadow_vars, physics_vars, regime_vars, vitality_vars, fanout_vars>>

NotRing ==
    <<seq_vars, st_vars, null_vars, ooda_vars, ign_vars, auth_vars, main_vars, shadow_vars, physics_vars, regime_vars, vitality_vars, fanout_vars>>

NotNullifier ==
    <<seq_vars, st_vars, ring_vars, ooda_vars, ign_vars, auth_vars, main_vars, shadow_vars, physics_vars, regime_vars, vitality_vars, fanout_vars>>

NotOoda ==
    <<seq_vars, st_vars, ring_vars, null_vars, ign_vars, auth_vars, main_vars, shadow_vars, physics_vars, regime_vars, vitality_vars, fanout_vars>>

NotIgnition == <<seq_vars, st_vars, ring_vars, null_vars, ooda_vars, auth_vars, main_vars, shadow_vars, physics_vars, regime_vars, vitality_vars, fanout_vars>>

NotVitality ==
    <<seq_vars, st_vars, ring_vars, null_vars, ooda_vars, auth_vars, main_vars,
      shadow_vars, physics_vars, regime_vars, fanout_vars>>

NotFanout ==
    <<seq_vars, st_vars, ring_vars, null_vars, ooda_vars, ign_vars, auth_vars,
      main_vars, shadow_vars, physics_vars, regime_vars, vitality_vars>>

NotMain == <<seq_vars, st_vars, ring_vars, null_vars, ooda_vars, shadow_vars, physics_vars, regime_vars, vitality_vars, fanout_vars>>

NotShadow ==
    <<seq_vars, st_vars, ring_vars, null_vars, ooda_vars, ign_vars, auth_vars,
      main_vars, physics_vars, regime_vars, vitality_vars, fanout_vars>>

NotPhysics ==
    <<seq_vars, st_vars, ring_vars, null_vars, ooda_vars, ign_vars, auth_vars,
      main_vars, shadow_vars, regime_vars, vitality_vars, fanout_vars>>

NotRegime ==
    <<seq_vars, st_vars, ring_vars, null_vars, ooda_vars, ign_vars, auth_vars,
      main_vars, shadow_vars, physics_vars, vitality_vars, fanout_vars>>

NotAuthority ==
    <<seq_vars, st_vars, ring_vars, null_vars, ooda_vars, ign_vars, main_vars, shadow_vars, physics_vars, regime_vars, vitality_vars, fanout_vars>>

None == <<>>

Some(v) == <<v>>

IsSome(o) == Len(o) = 1

Unwrap(o) == o[1]

Abs(x) == IF x < 0 THEN -x ELSE x

Min(a, b) == IF a < b THEN a ELSE b

(***************************************************************************)
(* Sequencer (sequencer/mod.rs) and the main loop's use of it.             *)
(***************************************************************************)

\* Number of ids the model lets the process hand out.
MaxIds == 6

\* Threads other than the main loop that hold a reference to the Sequencer.
OtherCallers == {"scribe", "mirror"}

\* Sequencer::new: the counter starts at 1, 0 is reserved.
Sequencer_new == [counter |-> 1]

\* A fetch_add that hands out the value without advancing the counter.
Sequencer_next_stuck(s) == [ret |-> s.counter, seq |-> [s EXCEPT !.counter = s.counter]]

\* Sequencer::next: counter.fetch_add(1, SeqCst) returns the old value and
\* stores old + 1 in one atomic step (u64 wrap-around is out of reach).
Sequencer_next(s) == [ret |-> s.counter, seq |-> [s EXCEPT !.counter = s.counter + 1]]

\* PhysicsEngine::update as far as the sequence id goes.  On a zero time
\* delta the previous state is returned with its sequence_id overwritten,
\* otherwise a new state is built around the id passed in.
feynman_update(prev_state, dt_zero, sequence_id) ==
    IF dt_zero
    THEN [prev_state EXCEPT !.sequence_id = sequence_id, !.refreshed = TRUE]
    ELSE [sequence_id |-> sequence_id, refreshed |-> FALSE]

\* PhysicsState::default (sequence_id: 0).
PhysicsState_default == [sequence_id |-> 0, refreshed |-> FALSE]

SeqInit ==
    /\ sequencer = Sequencer_new
    /\ seq_log = [issued |-> <<>>, psi |-> <<>>]

\* A thread other than the main loop draws an id.
SeqOtherCall(t) ==
    /\ Len(seq_log.issued) < MaxIds
    /\ LET r == Sequencer_next(sequencer) IN
        /\ sequencer' = r.seq
        /\ seq_log' = [seq_log EXCEPT !.issued = Append(@, [by |-> t, id |-> r.ret])]
    /\ UNCHANGED NotSequencer

\* One cycle of the main loop up to the physics update (main.rs 531-534):
\* draw the GSID, hand it to the estimator, emit the psi-state.
SeqMainCycle(dt_zero) ==
    /\ Len(seq_log.issued) < MaxIds
    /\ LET r == Sequencer_next(sequencer)
           prev == IF seq_log.psi = <<>> THEN PhysicsState_default
                   ELSE seq_log.psi[Len(seq_log.psi)]
           state == feynman_update(prev, dt_zero, r.ret) IN
        /\ sequencer' = r.seq
        /\ seq_log' = [seq_log EXCEPT !.issued = Append(@, [by |-> "main", id |-> r.ret]),
                                      !.psi = Append(@, state)]
    /\ UNCHANGED NotSequencer

\* C1: the ids handed out start at 1 and are strictly increasing in the
\* order of the calls, whichever thread calls (so none is handed out twice),
\* and the psi-states emitted by successive cycles of the main loop carry
\* strictly increasing sequence_ids.
C1_MonotoneSequence ==
    /\ seq_log.issued # <<>> => seq_log.issued[1].id = 1
    /\ \A i, j \in 1..Len(seq_log.issued) :
            i < j => seq_log.issued[i].id < seq_log.issued[j].id
    /\ \A i, j \in 1..Len(seq_log.psi) :
            i < j => seq_log.psi[i].sequence_id < seq_log.psi[j].sequence_id

\* Two psi-states were emitted, the later through the zero-dt path, with an
\* id drawn by another thread in between.
C1_Witness ==
    \E i, j, k \in 1..Len(seq_log.issued) :
        /\ i < j /\ j < k
        /\ seq_log.issued[i].by = "main"
        /\ seq_log.issued[j].by # "main"
        /\ seq_log.issued[k].by = "main"
        /\ seq_log.psi[Len(seq_log.psi)].refreshed

(***************************************************************************)
(* Risk staircase (governor/staircase.rs).                                 *)
(* Time is read in steps of 60 minutes: the veto window is 1 step, the     *)
(* cooldown 4 steps.                                                       *)
(***************************************************************************)

\* Last clock reading of the staircase model, in hours.
MaxTime == 5

\* Duration::from_secs(3600), the veto window.
VETO_WINDOW == 1

\* Duration::from_secs(4 * 3600), the cooldown.
COOLDOWN == 4

\* Tight fills required by the promotion gate.
PROMOTE_FILLS == 50

\* |slippage_bps| <= 2.0 is a tight fill (slippage x 10).
TIGHT_SLIPPAGE == 20

\* consensus_score > 0.85 (consensus x 100).
CONSENSUS_GATE == 85

\* alpha_decay > 0.15 (decay x 100).
DECAY_GATE == 15

\* RiskTier as its discriminant 0..5 (Q0..Max).
RiskTiers == 0..5

Q0 == 0

\* RiskTier::position_size, in 1/10000 lots.
position_size(t) ==
    CASE t = 0 -> 100
      [] t = 1 -> 500
      [] t = 2 -> 1000
      [] t = 3 -> 2500
      [] t = 4 -> 5000
      [] OTHER -> 10000

\* RiskTier::next.
RiskTier_next(t) == IF t < 5 THEN Some(t + 1) ELSE None

\* Staircase::new.
Staircase_new ==
    [current_tier |-> Q0, consecutive_tight_fills |-> 0, veto_count |-> 0,
     last_veto_time |-> None, cooldown_until |-> None]

\* Staircase::is_in_cooldown at clock reading now.
is_in_cooldown(s, now) ==
    IF IsSome(s.cooldown_until) THEN now < Unwrap(s.cooldown_until) ELSE FALSE

\* Staircase::get_position_size at clock reading now.
get_position_size(s, now) ==
    IF is_in_cooldown(s, now) THEN position_size(Q0) ELSE position_size(s.current_tier)

\* Staircase::register_fill; the counter is a u32, the model stops counting
\* one past the promotion gate.
register_fill(s, slippage_bps) ==
    IF Abs(slippage_bps) <= TIGHT_SLIPPAGE
    THEN [s EXCEPT !.consecutive_tight_fills = Min(@ + 1, PROMOTE_FILLS + 1)]
    ELSE [s EXCEPT !.consecutive_tight_fills = 0]

\* try_promote without the consensus gate.
try_promote_any_consensus(s, now, consensus_score) ==
    IF is_in_cooldown(s, now) THEN [st |-> s, ret |-> FALSE]
    ELSE IF /\ s.consecutive_tight_fills >= PROMOTE_FILLS
            /\ IsSome(RiskTier_next(s.current_tier))
         THEN [st |-> [s EXCEPT !.current_tier = Unwrap(RiskTier_next(s.current_tier)),
                                !.consecutive_tight_fills = 0],
               ret |-> TRUE]
         ELSE [st |-> s, ret |-> FALSE]

\* Staircase::try_promote: the new staircase and the returned flag.
try_promote(s, now, consensus_score) ==
    IF is_in_cooldown(s, now) THEN [st |-> s, ret |-> FALSE]
    ELSE IF /\ s.consecutive_tight_fills >= PROMOTE_FILLS
            /\ consensus_score > CONSENSUS_GATE
            /\ IsSome(RiskTier_next(s.current_tier))
         THEN [st |-> [s EXCEPT !.current_tier = Unwrap(RiskTier_next(s.current_tier)),
                                !.consecutive_tight_fills = 0],
               ret |-> TRUE]
         ELSE [st |-> s, ret |-> FALSE]

\* Staircase::demote_to_floor.
demote_to_floor(s) == [s EXCEPT !.current_tier = Q0, !.consecutive_tight_fills = 0]

\* Staircase::check_emergency_slide.
check_emergency_slide(s, alpha_decay) ==
    IF alpha_decay > DECAY_GATE THEN [st |-> demote_to_floor(s), ret |-> TRUE]
    ELSE [st |-> s, ret |-> FALSE]

\* register_veto with a lock of one window instead of four hours.
register_veto_short(s, now) ==
    LET expired == IsSome(s.last_veto_time) /\ now - Unwrap(s.last_veto_time) > VETO_WINDOW
        count == (IF expired THEN 0 ELSE s.veto_count) + 1
        s1 == [s EXCEPT !.veto_count = count, !.last_veto_time = Some(now)] IN
    IF count >= 3
    THEN [demote_to_floor([s1 EXCEPT !.cooldown_until = Some(now + VETO_WINDOW)])
            EXCEPT !.veto_count = 0]
    ELSE s1

\* Staircase::register_veto at clock reading now: the count is reset when
\* the previous veto is more than the window old, then incremented; at three
\* the cooldown starts, the tier drops to the floor and the count restarts.
register_veto(s, now) ==
    LET expired == IsSome(s.last_veto_time) /\ now - Unwrap(s.last_veto_time) > VETO_WINDOW
        count == (IF expired THEN 0 ELSE s.veto_count) + 1
        s1 == [s EXCEPT !.veto_count = count, !.last_veto_time = Some(now)] IN
    IF count >= 3
    THEN [demote_to_floor([s1 EXCEPT !.cooldown_until = Some(now + COOLDOWN)])
            EXCEPT !.veto_count = 0]
    ELSE s1

\* The last three elements of a history.
LastThree(h) == IF Len(h) <= 3 THEN h ELSE SubSeq(h, Len(h) - 2, Len(h))

StInit ==
    /\ staircase = Staircase_new
    /\ st_now = 0
    /\ st_log = [vetoes |-> <<>>, locked_at |-> None, promote_ret |-> None,
                 consensus |-> None, fill |-> None]

\* The clock moves on by one step.
StAdvance ==
    /\ st_now < MaxTime
    /\ st_now' = st_now + 1
    /\ st_log' = [st_log EXCEPT !.promote_ret = None, !.consensus = None, !.fill = None]
    /\ UNCHANGED staircase
    /\ UNCHANGED NotStaircase

\* A fill is reported: tight (1.0 bps) or poor (5.0 bps).  fill keeps its
\* slippage until the next call or clock step.
StRegisterFill(slippage_bps) ==
    /\ staircase' = register_fill(staircase, slippage_bps)
    /\ st_log' = [st_log EXCEPT
                    !.promote_ret = None, !.consensus = None,
                    !.fill = Some(slippage_bps)]
    /\ UNCHANGED st_now
    /\ UNCHANGED NotStaircase

\* A promotion attempt with the given consensus; promote_ret keeps the flag
\* it returned until the next call or clock step.
StTryPromote(consensus_score) ==
    LET r == try_promote(staircase, st_now, consensus_score) IN
    /\ staircase' = r.st
    /\ st_log' = [st_log EXCEPT !.promote_ret = Some(r.ret),
                                !.consensus = Some(consensus_score),
                                !.fill = None]
    /\ UNCHANGED st_now
    /\ UNCHANGED NotStaircase

\* The decay monitor reports alpha decay.
StEmergencySlide(alpha_decay) ==
    LET r == check_emergency_slide(staircase, alpha_decay) IN
    /\ r.st # staircase
    /\ staircase' = r.st
    /\ st_log' = [st_log EXCEPT !.promote_ret = None, !.consensus = None, !.fill = None]
    /\ UNCHANGED st_now
    /\ UNCHANGED NotStaircase

\* A nuclear veto is registered.
StRegisterVeto ==
    LET s2 == register_veto(staircase, st_now) IN
    /\ staircase' = s2
    /\ st_log' = [st_log EXCEPT
                    !.vetoes = LastThree(Append(@, st_now)),
                    !.locked_at = IF s2.cooldown_until # staircase.cooldown_until
                                  THEN Some(st_now) ELSE @,
                    !.promote_ret = None, !.consensus = None, !.fill = None]
    /\ UNCHANGED st_now
    /\ UNCHANGED NotStaircase

FloorSize == position_size(Q0)

\* Three register_veto calls are on record and all lie within one window.
ThreeVetoesInWindow ==
    /\ Len(st_log.vetoes) = 3
    /\ st_log.vetoes[3] - st_log.vetoes[1] <= VETO_WINDOW

C4_LockNeedsThreeInWindow ==
    [][staircase'.cooldown_until # staircase.cooldown_until
        => /\ Len(st_log'.vetoes) = 3
           /\ st_log'.vetoes[3] - st_log'.vetoes[1] <= VETO_WINDOW]_vars

(***************************************************************************)
(* Shared-memory historian ring (historian/shm_buffer.rs).                 *)
(* One producer runs write, one consumer (the archiver, with its own       *)
(* mapping of the same file) runs read_batch.  Every access to the mapped  *)
(* region is a step of its own.                                            *)
(***************************************************************************)

\* Slots in the model's ring; the program's BUFFER_SIZE is 16384.
RingCapacity == 2

\* Number of write calls the model lets the producer start.
MaxWrites == 4

\* Content of a slot of a freshly created (zeroed) file.
Zeroed == 0

SlotIndexes == 0..(RingCapacity - 1)

\* The mapping right after the file was created: header and slots are zero.
\* stale[i] is what slot i held before the latest store to it.
ShmRingBuffer_new ==
    [head |-> 0, tail |-> 0, dropped |-> 0,
     slots |-> [i \in SlotIndexes |-> Zeroed],
     stale |-> [i \in SlotIndexes |-> Zeroed]]

\* write, capacity check (head - tail >= BUFFER_SIZE) on the values read.
write_is_full(head, tail) == head - tail >= RingCapacity

\* A full-buffer branch that returns without counting the drop.
write_drop_uncounted(r) == r

\* write, full-buffer branch: dropped is read and written back plus one.
write_drop(r) == [r EXCEPT !.dropped = @ + 1]

\* write, step 3: the event is copied into slot head % BUFFER_SIZE.
write_slot(r, head, event) ==
    [r EXCEPT !.slots[head % RingCapacity] = event,
              !.stale[head % RingCapacity] = r.slots[head % RingCapacity]]

\* write, step 4: release fence, then head + 1 is stored.
write_commit(r, head) == [r EXCEPT !.head = head + 1]

\* read_batch, the number of events to copy.
read_count(head, tail, max_events) == Min(head - tail, max_events)

\* read_batch, the copy of one slot.  head is loaded with read_volatile and
\* the slot with a plain ptr::read; no acquire fence or atomic load orders
\* the two, so the load of the slot may be satisfied before the load of head
\* and return what the slot held before the producer's store.
read_slot(r, idx) == {r.slots[idx], r.stale[idx]}

\* read_batch, commit: tail + count is stored.
read_commit(r, tail, count) == [r EXCEPT !.tail = tail + count]

RingInit ==
    /\ ring = ShmRingBuffer_new
    /\ producer = [pc |-> "idle", head |-> 0, tail |-> 0, event |-> 0]
    /\ consumer = [pc |-> "idle", head |-> 0, tail |-> 0, count |-> 0, i |-> 0,
                   events |-> <<>>]
    /\ ring_log = [written |-> <<>>, consumed |-> <<>>, writes |-> 0]

\* write(event) is called; head is read (line 65).
WriteReadHead ==
    /\ producer.pc = "idle"
    /\ ring_log.writes < MaxWrites
    /\ producer' = [producer EXCEPT !.pc = "read_tail", !.head = ring.head,
                                    !.event = ring_log.writes + 1]
    /\ ring_log' = [ring_log EXCEPT !.writes = @ + 1]
    /\ UNCHANGED <<ring, consumer>>
    /\ UNCHANGED NotRing

\* tail is read (line 66) and the capacity is checked (line 68).
WriteReadTail ==
    /\ producer.pc = "read_tail"
    /\ producer' = [producer EXCEPT
                      !.tail = ring.tail,
                      !.pc = IF write_is_full(producer.head, ring.tail)
                             THEN "drop" ELSE "store"]
    /\ UNCHANGED <<ring, consumer, ring_log>>
    /\ UNCHANGED NotRing

\* Buffer full: dropped is bumped and write returns (lines 70-74).
WriteDrop ==
    /\ producer.pc = "drop"
    /\ ring' = write_drop(ring)
    /\ producer' = [producer EXCEPT !.pc = "idle"]
    /\ UNCHANGED <<consumer, ring_log>>
    /\ UNCHANGED NotRing

\* The event is copied into its slot (lines 79-88).
WriteSlot ==
    /\ producer.pc = "store"
    /\ ring' = write_slot(ring, producer.head, producer.event)
    /\ producer' = [producer EXCEPT !.pc = "commit"]
    /\ UNCHANGED <<consumer, ring_log>>
    /\ UNCHANGED NotRing

\* head is published and write returns (lines 97-98).
WriteCommit ==
    /\ producer.pc = "commit"
    /\ ring' = write_commit(ring, producer.head)
    /\ producer' = [producer EXCEPT !.pc = "idle"]
    /\ ring_log' = [ring_log EXCEPT !.written = Append(@, producer.event)]
    /\ UNCHANGED consumer
    /\ UNCHANGED NotRing

\* read_batch(max_events) is called; head is read (line 105).
ReadHead ==
    /\ consumer.pc = "idle"
    /\ Len(ring_log.consumed) < MaxWrites
    /\ consumer' = [consumer EXCEPT !.pc = "read_tail", !.head = ring.head]
    /\ UNCHANGED <<ring, producer, ring_log>>
    /\ UNCHANGED NotRing

\* tail is read (line 106); an empty ring returns at once (lines 108-110),
\* otherwise the batch size is fixed (line 112).
ReadTail(max_events) ==
    /\ consumer.pc = "read_tail"
    /\ consumer' = IF consumer.head <= ring.tail
                   THEN [consumer EXCEPT !.pc = "idle", !.tail = ring.tail,
                                         !.count = 0, !.i = 0, !.events = <<>>]
                   ELSE [consumer EXCEPT !.pc = "copy", !.tail = ring.tail,
                                         !.count = read_count(consumer.head, ring.tail, max_events),
                                         !.i = 0, !.events = <<>>]
    /\ UNCHANGED <<ring, producer, ring_log>>
    /\ UNCHANGED NotRing

\* One iteration of the copy loop (lines 115-123).
ReadSlot ==
    /\ consumer.pc = "copy"
    /\ consumer.i < consumer.count
    /\ \E event \in read_slot(ring, (consumer.tail + consumer.i) % RingCapacity) :
          consumer' = [consumer EXCEPT !.i = @ + 1, !.events = Append(@, event)]
    /\ UNCHANGED <<ring, producer, ring_log>>
    /\ UNCHANGED NotRing

\* tail is committed and the batch returned (lines 126-128).
ReadCommit ==
    /\ consumer.pc = "copy"
    /\ consumer.i = consumer.count
    /\ ring' = read_commit(ring, consumer.tail, consumer.count)
    /\ consumer' = [consumer EXCEPT !.pc = "idle"]
    /\ ring_log' = [ring_log EXCEPT !.consumed = @ \o consumer.events]
    /\ UNCHANGED producer
    /\ UNCHANGED NotRing

IsPrefix(a, b) == Len(a) <= Len(b) /\ SubSeq(b, 1, Len(a)) = a

\* C5: what read_batch has returned so far is exactly what the producer
\* published, in write order and without duplicates (a prefix of the
\* published events), and the producer stores into a slot only when that
\* slot is not published-and-unconsumed.
C5_ReadsEqualWrites ==
    /\ IsPrefix(ring_log.consumed, ring_log.written)
    /\ producer.pc = "store" => producer.head - ring.tail < RingCapacity

\* C6: a write that finds head - tail >= capacity takes the full-buffer
\* branch, which adds exactly one to dropped and leaves head, tail and every
\* slot as they are; the reads before it change nothing.
C6_FullWriteDrops ==
    [][/\ (producer.pc = "read_tail" /\ producer'.pc # "read_tail"
            /\ ring.head - ring.tail >= RingCapacity)
          => producer'.pc = "drop"
       /\ (producer.pc \in {"idle", "read_tail"} /\ producer' # producer)
          => ring' = ring
       /\ (producer.pc = "drop" /\ producer'.pc = "idle")
          => /\ ring'.dropped = ring.dropped + 1
             /\ ring'.head = ring.head
             /\ ring'.tail = ring.tail
             /\ ring'.slots = ring.slots]_vars

\* Two writes were rejected while the ring was full of unconsumed events.
C6_Witness ==
    /\ ring.dropped = 2
    /\ ring.head - ring.tail = RingCapacity
    /\ producer.pc = "idle"

(***************************************************************************)
(* Nullifier (auditor/nullifier.rs) as driven by OODACore::orient.         *)
(***************************************************************************)

\* Packets the model's grave buffer holds; the program's max_grave_size is 100.
GraveCapacity == 3

\* Longest streak of firewall failures the model follows.
MaxStreak == 7

\* amr_threshold set by Nullifier::new.
AMR_THRESHOLD == 3

\* Consecutive failures at which requires_demotion answers true.
DEMOTION_FAILURES == 5

\* Kinds of FirewallError that Firewall::validate returns.
FirewallErrors == {"NumericHallucination", "RegimeMismatch"}

\* Nullifier::new.
Nullifier_new == [consecutive_failures |-> 0, grave_buffer |-> <<>>]

\* Nullifier::trigger_amr: the signal is logged and the counter reset.
trigger_amr(n) == [n EXCEPT !.consecutive_failures = 0]

\* nullify that signals the reset from the second failure on.
nullify_early(n, error) ==
    LET graves == IF Len(n.grave_buffer) >= GraveCapacity
                  THEN Tail(n.grave_buffer) ELSE n.grave_buffer
        n1 == [n EXCEPT !.consecutive_failures = @ + 1,
                        !.grave_buffer = Append(graves, error)] IN
    IF n1.consecutive_failures >= AMR_THRESHOLD - 1
    THEN [nul |-> trigger_amr(n1), ret |-> TRUE]
    ELSE [nul |-> n1, ret |-> FALSE]

\* Nullifier::nullify: count the failure, bury the packet (the oldest is
\* evicted when the buffer is full), and at the threshold trigger the AMR.
\* Yields the new nullifier and the returned flag.
nullify(n, error) ==
    LET graves == IF Len(n.grave_buffer) >= GraveCapacity
                  THEN Tail(n.grave_buffer) ELSE n.grave_buffer
        n1 == [n EXCEPT !.consecutive_failures = @ + 1,
                        !.grave_buffer = Append(graves, error)] IN
    IF n1.consecutive_failures >= AMR_THRESHOLD
    THEN [nul |-> trigger_amr(n1), ret |-> TRUE]
    ELSE [nul |-> n1, ret |-> FALSE]

\* Nullifier::reset_continuity.
reset_continuity(n) ==
    IF n.consecutive_failures > 0 THEN [n EXCEPT !.consecutive_failures = 0] ELSE n

\* Nullifier::requires_demotion.
requires_demotion(n) == n.consecutive_failures >= DEMOTION_FAILURES

\* Nullifier::drain_graves: the buffer is emptied.
drain_graves(n) == [n EXCEPT !.grave_buffer = <<>>]

\* The semantics of an OODAState that has none.
BlindSemantics ==
    [sentiment_score |-> None, nearest_regime |-> None, brain_latency |-> None,
     vector_distance |-> None]

\* Replies of the reasoning service: sentiment x 100, latency in ms,
\* distance x 100.
Contexts ==
    {[sentiment_score |-> -80, nearest_regime |-> "Crisis", latency |-> 12,
      regime_distance |-> 12],
     [sentiment_score |-> 40, nearest_regime |-> "Laminar", latency |-> 3,
      regime_distance |-> 5]}

\* How the reasoning call of orient can end without a usable reply: the
\* deadline expires, the call fails, the reply comes after the latency
\* limit of the sync gate.
BlindCauses == {"timeout", "error", "late"}

\* A fetch that still uses the reply when the deadline has expired.
fetch_semantics_stale(outcome, ctx) ==
    IF outcome \in {"valid", "timeout"}
    THEN [sentiment_score |-> Some(ctx.sentiment_score),
          nearest_regime |-> Some(ctx.nearest_regime),
          brain_latency |-> Some(ctx.latency),
          vector_distance |-> Some(ctx.regime_distance)]
    ELSE BlindSemantics

\* orient, the live path (ooda_loop.rs 184-233): sentiment, regime, brain
\* latency and vector distance of the state it returns, by the outcome of
\* the reasoning call.
fetch_semantics(outcome, ctx) ==
    IF outcome = "valid"
    THEN [sentiment_score |-> Some(ctx.sentiment_score),
          nearest_regime |-> Some(ctx.nearest_regime),
          brain_latency |-> Some(ctx.latency),
          vector_distance |-> Some(ctx.regime_distance)]
    ELSE BlindSemantics

\* streak: firewall failures since the last valid reply; amr_count: AMR
\* signals in that streak; amr: flag returned by the latest nullify of the
\* streak; last: outcome of the latest orient; cause: how its reasoning
\* call ended; returned: the semantics of the state it returned.
NullInit ==
    /\ nullifier = Nullifier_new
    /\ null_log = [streak |-> 0, amr_count |-> 0, amr |-> None, last |-> "none",
                   cause |-> "none", returned |-> BlindSemantics]

\* orient: the reply fails Firewall::validate and is nullified
\* (ooda_loop.rs 211-221).
OrientRejected(error, ctx) ==
    /\ null_log.streak < MaxStreak
    /\ LET r == nullify(nullifier, error) IN
        /\ nullifier' = r.nul
        /\ null_log' = [streak |-> null_log.streak + 1,
                        amr_count |-> null_log.amr_count + (IF r.ret THEN 1 ELSE 0),
                        amr |-> Some(r.ret),
                        last |-> "rejected",
                        cause |-> "rejected",
                        returned |-> fetch_semantics("rejected", ctx)]
    /\ UNCHANGED NotNullifier

\* orient: the reply passes the firewall (ooda_loop.rs 206-210).
OrientValid(ctx) ==
    /\ nullifier' = reset_continuity(nullifier)
    /\ null_log' = [streak |-> 0, amr_count |-> 0, amr |-> None, last |-> "valid",
                    cause |-> "valid", returned |-> fetch_semantics("valid", ctx)]
    /\ UNCHANGED NotNullifier

\* orient: timeout, brain error or latency violation; the firewall is not
\* consulted (ooda_loop.rs 191-193, 225-232).  ctx is the reply that came
\* too late, or would have come.
OrientBlind(cause, ctx) ==
    /\ null_log' = [null_log EXCEPT !.last = "blind", !.cause = cause,
                                    !.returned = fetch_semantics(cause, ctx)]
    /\ UNCHANGED nullifier
    /\ UNCHANGED NotNullifier

\* The main loop drains the graves at the start of a cycle (main.rs 401).
DrainGraves ==
    /\ nullifier.grave_buffer # <<>>
    /\ nullifier' = drain_graves(nullifier)
    /\ UNCHANGED null_log
    /\ UNCHANGED NotNullifier

\* C7 as stated: in a streak of firewall failures the AMR is signalled
\* exactly once, at the third failure and at no other, however long the
\* streak; a valid reply resets the counter.
C7_AmrOncePerStreak ==
    /\ null_log.streak >= AMR_THRESHOLD => null_log.amr_count = 1
    /\ null_log.streak < AMR_THRESHOLD => null_log.amr_count = 0
    /\ null_log.amr = Some(TRUE) => null_log.streak = AMR_THRESHOLD
    /\ null_log.last = "valid" => nullifier.consecutive_failures = 0

\* C7 amended: in a streak of firewall failures the AMR is signalled at
\* every third failure (the 3rd, 6th, ...) and at no other, the counter
\* restarting at each signal; a valid reply resets the counter.
C7_AmrEveryThird ==
    /\ null_log.amr_count = null_log.streak \div AMR_THRESHOLD
    /\ null_log.amr = Some(TRUE)
          <=> (null_log.streak > 0 /\ null_log.streak % AMR_THRESHOLD = 0)
    /\ nullifier.consecutive_failures = null_log.streak % AMR_THRESHOLD
    /\ null_log.last = "valid" => nullifier.consecutive_failures = 0

\* A streak of six failures, with a blind cycle as the latest orient, has
\* signalled the AMR twice.
C7_Witness ==
    /\ null_log.streak = 2 * AMR_THRESHOLD
    /\ null_log.amr_count = 2
    /\ null_log.last = "blind"

\* C8: after five or more consecutive nullifications with no valid reply in
\* between, requires_demotion answers true.
C8_DemotionAfterFive ==
    null_log.streak >= DEMOTION_FAILURES => requires_demotion(nullifier)

(***************************************************************************)
(* Provisional executive (governor/provisional.rs), veto gate              *)
(* (brain/veto_gate.rs) and OODACore::decide (governor/ooda_loop.rs).      *)
(* The clock is read in ticks of five minutes.                             *)
(***************************************************************************)

\* Last clock reading of the OODA model, in ticks.
MaxNow == 1

\* Samples the model's shadow-PnL ring holds; the program's ring holds 1000.
PnlCapacity == 2

\* SAFETY_STAIRCASE, in 1/10000 lots, indexed from 0.
SAFETY_STAIRCASE(i) ==
    CASE i = 0 -> 100
      [] i = 1 -> 500
      [] i = 2 -> 1000
      [] i = 3 -> 2500
      [] i = 4 -> 5000
      [] OTHER -> 10000

\* SAFETY_STAIRCASE.len().
STAIRCASE_LEN == 6

\* WARMUP_DURATION_MS = 300_000, five minutes: one tick.
WARMUP_DURATION == 1

\* required_stable_cycles set by ProvisionalExecutive::new.
REQUIRED_STABLE_CYCLES == 2

\* ProvisionalExecutive::new at clock reading now.
ProvisionalExecutive_new(now) ==
    [current_tier_index |-> 0, consecutive_stable_cycles |-> 0,
     shadow_pnl_window |-> <<>>, boot_time |-> now]

\* ProvisionalExecutive::get_current_max_risk.
get_current_max_risk(pe) == SAFETY_STAIRCASE(pe.current_tier_index)

\* ProvisionalExecutive::calculate_stability_score: jerk x 1000,
\* efficiency and entropy x 100; the average of the three component scores
\* rounded up.
calculate_stability_score(jerk, entropy, efficiency) ==
    LET j_score == IF Abs(jerk) < 10 THEN 1
                   ELSE IF Abs(jerk) < 50 THEN 2
                   ELSE IF Abs(jerk) < 100 THEN 5 ELSE 10
        e_score == IF efficiency > 90 THEN 1
                   ELSE IF efficiency > 80 THEN 2
                   ELSE IF efficiency > 50 THEN 5 ELSE 10
        h_score == IF entropy < 100 THEN 1 ELSE 10 IN
    (j_score + e_score + h_score + 2) \div 3

\* ProvisionalExecutive::update_shadow_sim: push, evicting the oldest sample
\* of a full ring.
update_shadow_sim(pe, pnl_tick) ==
    LET w == IF Len(pe.shadow_pnl_window) >= PnlCapacity
             THEN Tail(pe.shadow_pnl_window) ELSE pe.shadow_pnl_window IN
    [pe EXCEPT !.shadow_pnl_window = Append(w, pnl_tick)]

RECURSIVE SumSeq(_)
SumSeq(q) == IF q = <<>> THEN 0 ELSE Head(q) + SumSeq(Tail(q))

\* attempt_promotion without the warm-up check.
attempt_promotion_cold(pe, now) ==
    IF pe.consecutive_stable_cycles < REQUIRED_STABLE_CYCLES THEN [pe |-> pe, ret |-> FALSE]
    ELSE IF SumSeq(pe.shadow_pnl_window) <= 0 THEN [pe |-> pe, ret |-> FALSE]
    ELSE IF pe.current_tier_index < STAIRCASE_LEN - 1
         THEN [pe |-> [pe EXCEPT !.current_tier_index = @ + 1,
                                 !.consecutive_stable_cycles = 0],
               ret |-> TRUE]
         ELSE [pe |-> pe, ret |-> FALSE]

\* attempt_promotion that keeps the stable-cycle count on a promotion.
attempt_promotion_keep(pe, now) ==
    IF pe.consecutive_stable_cycles < REQUIRED_STABLE_CYCLES THEN [pe |-> pe, ret |-> FALSE]
    ELSE IF now - pe.boot_time < WARMUP_DURATION THEN [pe |-> pe, ret |-> FALSE]
    ELSE IF SumSeq(pe.shadow_pnl_window) <= 0 THEN [pe |-> pe, ret |-> FALSE]
    ELSE IF pe.current_tier_index < STAIRCASE_LEN - 1
         THEN [pe |-> [pe EXCEPT !.current_tier_index = @ + 1], ret |-> TRUE]
         ELSE [pe |-> pe, ret |-> FALSE]

\* ProvisionalExecutive::attempt_promotion at clock reading now.
attempt_promotion(pe, now) ==
    IF pe.consecutive_stable_cycles < REQUIRED_STABLE_CYCLES THEN [pe |-> pe, ret |-> FALSE]
    ELSE IF now - pe.boot_time < WARMUP_DURATION THEN [pe |-> pe, ret |-> FALSE]
    ELSE IF SumSeq(pe.shadow_pnl_window) <= 0 THEN [pe |-> pe, ret |-> FALSE]
    ELSE IF pe.current_tier_index < STAIRCASE_LEN - 1
         THEN [pe |-> [pe EXCEPT !.current_tier_index = @ + 1,
                                 !.consecutive_stable_cycles = 0],
               ret |-> TRUE]
         ELSE [pe |-> pe, ret |-> FALSE]

\* ProvisionalExecutive::update once the stability score is known: the new
\* executive and the returned flag.  The stable-cycle counter is a usize;
\* the model stops counting at the required number, above which no
\* comparison changes.
update_scored(pe, score, now) ==
    LET pe1 == IF score <= 3
               THEN [pe EXCEPT !.consecutive_stable_cycles =
                                    Min(@ + 1, REQUIRED_STABLE_CYCLES)]
               ELSE [pe EXCEPT !.consecutive_stable_cycles = 0,
                               !.current_tier_index = IF score >= 9 THEN 0 ELSE @]
        mock_pnl == IF score <= 5 THEN 1 ELSE -1 IN
    attempt_promotion(update_shadow_sim(pe1, mock_pnl), now)

\* ProvisionalExecutive::update at clock reading now.
update(pe, physics, entropy, efficiency, now) ==
    update_scored(pe, calculate_stability_score(physics.jerk, entropy, efficiency), now)

\* VetoGate::new at clock reading now.
VetoGate_new(now) == [last_sentiment_score |-> 0, last_sentiment_time |-> now]

\* VetoGate::update_sentiment at clock reading now.
update_sentiment(g, score, now) ==
    [g EXCEPT !.last_sentiment_score = score, !.last_sentiment_time = now]

RECURSIVE Pow2(_)
Pow2(k) == IF k <= 0 THEN 1 ELSE 2 * Pow2(k - 1)

\* Half-lives of 60 s in one tick.
HALF_LIVES_PER_TICK == 5

\* The decayed sentiment of check_hard_stop is below -0.90:
\* score * 0.5^(elapsed / 60 s) < -0.90, sentiment x 100.
is_extreme_narrative(g, now) ==
    g.last_sentiment_score
        < -90 * Pow2(HALF_LIVES_PER_TICK * (now - g.last_sentiment_time))

\* physics.jerk.abs() > 50.0.
is_chaos(physics) == Abs(physics.jerk) > 50000

\* omega_ratio < 1.0.
is_negative_ev(omega_ratio) == omega_ratio < 10

\* VetoGate::check_hard_stop at clock reading now.
check_hard_stop(g, physics, omega_ratio, now) ==
    is_extreme_narrative(g, now) /\ is_chaos(physics) /\ is_negative_ev(omega_ratio)

\* let mock_omega = 1.2 in decide.
MOCK_OMEGA == 12

\* The physics fields decide and update read: acceleration x 10,
\* jerk x 1000, entropy and efficiency_index x 100.
PhysicsOf(a, j, h, e) ==
    [acceleration |-> a, jerk |-> j, entropy |-> h, efficiency_index |-> e]

\* Decision { action, reason }: sizes in 1/10000 lots, the reason by its tag.
Decision(action, size, reason) == [action |-> action, size |-> size, reason |-> reason]

\* Simons signal of decide, doubled: +1.0 or -1.0.
base_signal(physics) == IF physics.acceleration > 0 THEN 2 ELSE -2

\* The jitter fallback leaves the signal as it is.
jitter_fallback_full(signal) == signal

\* The jitter fallback of decide: base_signal *= 0.5 (doubled signal).
jitter_fallback(signal) == signal \div 2

\* Step 6 of decide: the decision built from the doubled signal.
final_decision(signal, max_risk) ==
    IF signal >= 1 THEN Decision("Buy", (max_risk * Abs(signal)) \div 2, "ALIGNED")
    ELSE IF signal <= -1 THEN Decision("Sell", (max_risk * Abs(signal)) \div 2, "BEARISH")
    ELSE Decision("Hold", 0, "FLOOR")

\* legislative_veto that lets every decision through.
legislative_veto_off(decision, bias) == decision

\* The legislative veto of decide.
legislative_veto(decision, bias) ==
    IF bias = "LongOnly" /\ decision.action = "Sell"
    THEN Decision("Hold", 0, "LEGISLATIVE")
    ELSE IF bias = "ShortOnly" /\ decision.action = "Buy"
    THEN Decision("Hold", 0, "LEGISLATIVE")
    ELSE decision

\* decide_sized without the soft veto.
decide_sized_noveto(u, g1, state, bias) ==
    LET signal == IF IsSome(state.sentiment_score)
                  THEN base_signal(state.physics)
                  ELSE jitter_fallback(base_signal(state.physics)) IN
    [provisional |-> u.pe, veto_gate |-> g1, promoted |-> u.ret,
     decision |-> legislative_veto(
                      final_decision(signal, get_current_max_risk(u.pe)), bias)]

\* Steps 4 to 6 of decide and the legislative veto, given the result u of
\* provisional.update and the veto gate g1 of step 1.
decide_sized(u, g1, state, bias) ==
    IF /\ IsSome(state.sentiment_score)
       /\ base_signal(state.physics) > 0
       /\ Unwrap(state.sentiment_score) < -50
    THEN [provisional |-> u.pe, veto_gate |-> g1, promoted |-> u.ret,
          decision |-> Decision("Hold", 0, "VETO")]
    ELSE
      LET signal == IF IsSome(state.sentiment_score)
                    THEN base_signal(state.physics)
                    ELSE jitter_fallback(base_signal(state.physics)) IN
      [provisional |-> u.pe, veto_gate |-> g1, promoted |-> u.ret,
       decision |-> legislative_veto(
                        final_decision(signal, get_current_max_risk(u.pe)), bias)]

\* Steps 1 to 3 of decide, given the veto gate g1 of step 1.
decide_gated(pe, g1, state, bias, now) ==
    IF check_hard_stop(g1, state.physics, MOCK_OMEGA, now)
    THEN [provisional |-> pe, veto_gate |-> g1, promoted |-> FALSE,
          decision |-> Decision("Halt", 0, "NUCLEAR")]
    ELSE decide_sized(update(pe, state.physics, state.physics.entropy,
                             state.physics.efficiency_index, now),
                      g1, state, bias)

\* OODACore::decide at clock reading now: the new provisional executive and
\* veto gate, the decision, and the flag update returned.
decide(pe, g, state, bias, now) ==
    decide_gated(pe,
                 IF IsSome(state.sentiment_score)
                 THEN update_sentiment(g, Unwrap(state.sentiment_score), now)
                 ELSE g,
                 state, bias, now)

\* Inputs of the OODA model.
Accelerations == {50, -50}

Jerks == {5, -60000}

\* An efficient, ordered market and an inefficient, disordered one.
Markets == {[entropy |-> 50, efficiency_index |-> 95],
            [entropy |-> 500, efficiency_index |-> 10]}

Sentiments == {None, Some(-95), Some(-50), Some(50)}

Biases == {"Neutral", "LongOnly", "ShortOnly"}

\* Omega ratio of the position at the time of a call, x 10.
OmegaRatios == {8, 12}

\* The stability score of these physics counts as a stable cycle (score <= 3).
is_stable(physics) ==
    calculate_stability_score(physics.jerk, physics.entropy,
                              physics.efficiency_index) <= 3

\* No call yet.
NoCall ==
    [op |-> "none", promoted |-> FALSE, decision |-> Decision("Hold", 0, "NONE"),
     sentiment_score |-> None, bias |-> "Neutral", hard_stop_due |-> FALSE,
     max_risk |-> 0, acceleration |-> 0, stable |-> FALSE]

\* OODACore::new: the executive and the gate are created at boot.
OodaInit ==
    /\ ooda_now = 0
    /\ provisional = ProvisionalExecutive_new(0)
    /\ veto_gate = VetoGate_new(0)
    /\ ooda_log = NoCall

\* Time passes between calls.
OodaAdvance ==
    /\ ooda_now < MaxNow
    /\ ooda_now' = ooda_now + 1
    /\ UNCHANGED <<provisional, veto_gate, ooda_log>>
    /\ UNCHANGED NotOoda

\* provisional.update(physics, entropy, efficiency) called on its own.
ProvisionalUpdate(physics) ==
    \E u \in {update(provisional, physics, physics.entropy,
                     physics.efficiency_index, ooda_now)} :
    /\ provisional' = u.pe
    /\ ooda_log' = [NoCall EXCEPT !.op = "update", !.promoted = u.ret,
                                  !.max_risk = get_current_max_risk(u.pe),
                                  !.stable = is_stable(physics)]
    /\ UNCHANGED <<veto_gate, ooda_now>>
    /\ UNCHANGED NotOoda

\* core.decide(state, legislation), while the position's omega ratio is
\* omega_ratio.  The log keeps whether the three conditions of the hard stop
\* held at the call, the max risk the executive exposes after it, and
\* whether the update it made scored a stable cycle.
Decide(state, bias, omega_ratio) ==
    \E r \in {decide(provisional, veto_gate, state, bias, ooda_now)} :
    /\ provisional' = r.provisional
    /\ veto_gate' = r.veto_gate
    /\ ooda_log' = [op |-> "decide", promoted |-> r.promoted,
                    decision |-> r.decision,
                    sentiment_score |-> state.sentiment_score,
                    bias |-> bias,
                    hard_stop_due |-> check_hard_stop(r.veto_gate, state.physics,
                                                      omega_ratio, ooda_now),
                    max_risk |-> get_current_max_risk(r.provisional),
                    acceleration |-> state.physics.acceleration,
                    stable |-> r.decision.action # "Halt" /\ is_stable(state.physics)]
    /\ UNCHANGED ooda_now
    /\ UNCHANGED NotOoda

\* C2: decide returns Halt exactly when, at the call, the decayed sentiment
\* is below -0.9, |jerk| is above 50 and the omega ratio is below 1.0.
C2_HaltIffHardStop ==
    ooda_log.op = "decide"
        => (ooda_log.decision.action = "Halt" <=> ooda_log.hard_stop_due)

\* C9: during the first five minutes after the executive was created no
\* update promotes the tier and the max risk stays at the floor 0.01.
C9_WarmupLockout ==
    ooda_now - provisional.boot_time < WARMUP_DURATION
        => /\ get_current_max_risk(provisional) = SAFETY_STAIRCASE(0)
           /\ ooda_log.promoted = FALSE

\* Within the warm-up, an update has found enough stable cycles and a
\* positive shadow PnL.
C9_Witness ==
    /\ ooda_now - provisional.boot_time < WARMUP_DURATION
    /\ ooda_log.op = "update"
    /\ provisional.consecutive_stable_cycles >= REQUIRED_STABLE_CYCLES
    /\ SumSeq(provisional.shadow_pnl_window) > 0

\* C10: a Buy decided without a sentiment score has a size of at most half
\* the max risk the executive exposes for that cycle.
C10_BlindBuyHalved ==
    (/\ ooda_log.op = "decide"
     /\ ooda_log.sentiment_score = None
     /\ ooda_log.decision.action = "Buy")
        => 2 * ooda_log.decision.size <= ooda_log.max_risk

\* A blind Buy on the second tier: half of 0.05.
C10_Witness ==
    /\ ooda_log.op = "decide"
    /\ ooda_log.sentiment_score = None
    /\ ooda_log.decision.action = "Buy"
    /\ ooda_log.max_risk = SAFETY_STAIRCASE(1)
    /\ ooda_log.decision.size = 250

\* C11: whenever decide is given an acceleration above 0 and a sentiment
\* below -0.5 it returns Hold, whatever the legislative bias and the tier.
C11_SoftVetoHolds ==
    (/\ ooda_log.op = "decide"
     /\ ooda_log.acceleration > 0
     /\ IsSome(ooda_log.sentiment_score)
     /\ Unwrap(ooda_log.sentiment_score) < -50)
        => ooda_log.decision.action = "Hold"

\* The soft veto has overruled a Buy on a promoted tier under LongOnly.
C11_Witness ==
    /\ ooda_log.op = "decide"
    /\ ooda_log.acceleration > 0
    /\ ooda_log.sentiment_score = Some(-95)
    /\ ooda_log.bias = "LongOnly"
    /\ ooda_log.max_risk > SAFETY_STAIRCASE(0)
    /\ ooda_log.decision.reason = "VETO"

\* C12: under LongOnly decide never returns Sell and under ShortOnly it
\* never returns Buy.
C12_BiasBlocksOpposite ==
    ooda_log.op = "decide"
        => /\ ooda_log.bias = "LongOnly" => ooda_log.decision.action # "Sell"
           /\ ooda_log.bias = "ShortOnly" => ooda_log.decision.action # "Buy"

\* A bearish signal was turned into Hold by the LongOnly legislation.
C12_Witness ==
    /\ ooda_log.op = "decide"
    /\ ooda_log.bias = "LongOnly"
    /\ ooda_log.acceleration <= 0
    /\ ooda_log.decision.action = "Hold"
    /\ ooda_log.decision.reason = "LEGISLATIVE"

\* C13: try_promote raises the tier by exactly one step and returns true
\* when, outside cooldown and below the top tier, the count of consecutive
\* tight fills is at least 50 and the consensus is above 0.85; in every other
\* case it returns false and the tier stays, and nothing else raises the
\* tier.  A fill with |slippage| > 2 bps leaves the count at zero.
C13_PromoteOnCounter ==
    [][/\ st_log'.promote_ret # None
            => LET gate == /\ ~is_in_cooldown(staircase, st_now)
                           /\ IsSome(RiskTier_next(staircase.current_tier))
                           /\ staircase.consecutive_tight_fills >= PROMOTE_FILLS
                           /\ Unwrap(st_log'.consensus) > CONSENSUS_GATE IN
               /\ gate => /\ staircase'.current_tier = staircase.current_tier + 1
                          /\ st_log'.promote_ret = Some(TRUE)
               /\ ~gate => /\ staircase'.current_tier = staircase.current_tier
                           /\ st_log'.promote_ret = Some(FALSE)
       /\ staircase'.current_tier > staircase.current_tier
            => st_log'.promote_ret = Some(TRUE)
       /\ (IsSome(st_log'.fill) /\ Abs(Unwrap(st_log'.fill)) > TIGHT_SLIPPAGE)
            => staircase'.consecutive_tight_fills = 0]_vars

\* A second promotion, fifty more tight fills after the first, once a
\* cooldown has passed.
C13_Witness ==
    /\ st_log.promote_ret = Some(TRUE)
    /\ staircase.current_tier = 2
    /\ IsSome(staircase.cooldown_until)

MaxIgnNow == 7

\* IgnitionState in gate order.
GATE_CHAIN ==
    <<"Hibernation", "HardwareCheck", "WarmingUp", "PennyTrade", "AwaitingGemma",
      "Ignited">>

\* Position of an ignition state in the chain.
GateRank(st) == CHOOSE i \in 1..Len(GATE_CHAIN) : GATE_CHAIN[i] = st

\* Duration::from_secs(300), the stability Gate 1 asks of the sentinel.
HARDWARE_STABLE == 5

\* Duration::from_secs(60), the market-data flow Gate 2 asks for.
WARMUP_FLOW == 1

\* jitter_threshold_us set by Sentinel::new.
JITTER_THRESHOLD == 50

\* Sentinel::new at clock reading now: Optimal, unstable as of boot.
Sentinel_new(now) == [status |-> "Optimal", last_instability |-> now]

\* Sentinel::tick, status from the jitter (microseconds).
vitality_status(jitter_us) ==
    IF jitter_us > JITTER_THRESHOLD * 2 THEN "Critical"
    ELSE IF jitter_us > JITTER_THRESHOLD THEN "Degraded"
    ELSE "Optimal"

\* Sentinel::tick at clock reading now, given the jitter it computed.
Sentinel_tick(s, jitter_us, now) ==
    [status |-> vitality_status(jitter_us),
     last_instability |-> IF vitality_status(jitter_us) # "Optimal" THEN now
                          ELSE s.last_instability]

\* Sentinel::is_stable_for at clock reading now.
is_stable_for(s, duration, now) ==
    s.status = "Optimal" /\ now - s.last_instability >= duration

\* IgnitionSequence::new at clock reading now.
IgnitionSequence_new(now) ==
    [state |-> "Hibernation", hardware_last_checked |-> now,
     warmup_start |-> None, penny_trade_id |-> None]

\* IgnitionSequence::initiate_launch.
initiate_launch(ig) ==
    IF ig.state = "Hibernation" THEN [ig EXCEPT !.state = "HardwareCheck"] ELSE ig

\* IgnitionSequence::abort.
abort(ig) == [ig EXCEPT !.state = "Hibernation", !.warmup_start = None]

\* IgnitionSequence::update at clock reading now.
ignition_update(ig, sen, market_active, now) ==
    CASE ig.state = "HardwareCheck" ->
            IF is_stable_for(sen, HARDWARE_STABLE, now)
            THEN [ig EXCEPT !.state = "WarmingUp", !.warmup_start = Some(now)]
            ELSE ig
      [] ig.state = "WarmingUp" ->
            IF ~market_active THEN [ig EXCEPT !.warmup_start = Some(now)]
            ELSE IF IsSome(ig.warmup_start) /\ now - Unwrap(ig.warmup_start) >= WARMUP_FLOW
                 THEN [ig EXCEPT !.state = "PennyTrade"]
                 ELSE ig
      [] OTHER -> ig

\* IgnitionSequence::confirm_penny_trade.
confirm_penny_trade(ig) ==
    IF ig.state = "PennyTrade" THEN [ig EXCEPT !.state = "AwaitingGemma"] ELSE ig

\* A blessing that ignites from whatever state the sequence is in.
confirm_gemma_blessing_always(ig) == [ig EXCEPT !.state = "Ignited"]

\* IgnitionSequence::confirm_gemma_blessing.
confirm_gemma_blessing(ig) ==
    IF ig.state = "AwaitingGemma" THEN [ig EXCEPT !.state = "Ignited"] ELSE ig

\* Jitter the sentinel measures: calm, above the threshold, above twice it.
Jitters == {10, 70, 120}

\* The gates passed since the sequence last was in Hibernation, after a
\* call that left it in state st.
Passed(passed, st) == IF st = "Hibernation" THEN {st} ELSE passed \cup {st}

\* The log after a call op of the ignition that led from ig to ig2.
IgnLogged(op, ig, ig2, upstream_failed) ==
    [op |-> op, was |-> ig.state, upstream_failed |-> upstream_failed,
     passed |-> Passed(ign_log.passed, ig2.state)]

IgnInit ==
    /\ ign_now = 0
    /\ ignition = IgnitionSequence_new(0)
    /\ sentinel = Sentinel_new(0)
    /\ ign_log = [op |-> "none", was |-> "Hibernation", upstream_failed |-> FALSE,
                  passed |-> {"Hibernation"}]

\* Time passes between calls.
IgnAdvance ==
    /\ ign_now < MaxIgnNow
    /\ ign_now' = ign_now + 1
    /\ UNCHANGED <<ignition, sentinel, ign_log>>
    /\ UNCHANGED NotIgnition

\* The main loop ticks the sentinel (main.rs 557).
SentinelTick(jitter_us) ==
    /\ sentinel' = Sentinel_tick(sentinel, jitter_us, ign_now)
    /\ ign_log' = IgnLogged("tick", ignition, ignition, FALSE)
    /\ UNCHANGED <<ignition, ign_now>>
    /\ UNCHANGED NotIgnition

\* An ignition request arrives from the API (main.rs 462-468).
IgnLaunch ==
    /\ ignition' = initiate_launch(ignition)
    /\ ign_log' = IgnLogged("launch", ignition, ignition', FALSE)
    /\ UNCHANGED <<sentinel, ign_now>>
    /\ UNCHANGED NotIgnition

\* ignition.update(&sentinel, market_active).  upstream_failed records that
\* the sentinel was not Optimal or the market data was not flowing.
IgnUpdate(market_active) ==
    /\ ignition' = ignition_update(ignition, sentinel, market_active, ign_now)
    /\ ign_log' = IgnLogged("update", ignition, ignition',
                            sentinel.status # "Optimal" \/ ~market_active)
    /\ UNCHANGED <<sentinel, ign_now>>
    /\ UNCHANGED NotIgnition

\* The penny trade's fill is confirmed from outside.
IgnConfirmPenny ==
    /\ ignition' = confirm_penny_trade(ignition)
    /\ ign_log' = IgnLogged("confirm_penny", ignition, ignition', FALSE)
    /\ UNCHANGED <<sentinel, ign_now>>
    /\ UNCHANGED NotIgnition

\* The brain's blessing is confirmed from outside.
IgnConfirmGemma ==
    /\ ignition' = confirm_gemma_blessing(ignition)
    /\ ign_log' = IgnLogged("confirm_gemma", ignition, ignition', FALSE)
    /\ UNCHANGED <<sentinel, ign_now>>
    /\ UNCHANGED NotIgnition

\* The launch is aborted.
IgnAbort ==
    /\ ignition' = abort(ignition)
    /\ ign_log' = IgnLogged("abort", ignition, ignition', FALSE)
    /\ UNCHANGED <<sentinel, ign_now>>
    /\ UNCHANGED NotIgnition

\* C15: the ignition state changes only to the next gate of the chain or
\* back to Hibernation, and whenever it is Ignited every earlier gate has
\* been passed since the sequence last left Hibernation.
C15_OneGateAtATime ==
    [][/\ ignition'.state # ignition.state
            => \/ GateRank(ignition'.state) = GateRank(ignition.state) + 1
               \/ ignition'.state = "Hibernation"
       /\ ignition'.state = "Ignited"
            => ign_log'.passed = {GATE_CHAIN[i] : i \in 1..Len(GATE_CHAIN)}]_vars

\* The blessing ignited the sequence from AwaitingGemma at the last clock
\* reading, every gate having been passed.
C15_Witness ==
    /\ ignition.state = "Ignited"
    /\ ign_log.op = "confirm_gemma"
    /\ ign_log.was = "AwaitingGemma"
    /\ ign_now = MaxIgnNow

\* C16: an update that finds the sentinel not Optimal or the market data
\* not flowing while the sequence is past Hibernation returns it to
\* Hibernation.
C16_UpstreamFailureResets ==
    (/\ ign_log.op = "update"
     /\ ign_log.upstream_failed
     /\ ign_log.was # "Hibernation")
        => ignition.state = "Hibernation"

(***************************************************************************)
(* The authority bridge (governor/authority.rs) and the path a sovereign   *)
(* command takes from the API to the main loop (server.rs 123-149,         *)
(* main.rs 272-281 and 382-384).  main creates the bridge twice: the       *)
(* sender of the first goes to the API server, the second shadows the      *)
(* first and is the one the loop polls.  The latency and the count of      *)
(* commands the bridge keeps for telemetry are left out.                   *)
(***************************************************************************)

\* Most commands waiting in a channel in the model.
MaxQueued == 2

\* Manual sentiment weights an operator sets, x 100.
OverrideValues == {30}

\* SovereignCommand.
Command(type, value) == [type |-> type, value |-> value]

\* The commands the API can send.
Commands ==
    {Command(t, 0) : t \in {"Kill", "Veto", "Pause", "Resume", "CloseAll",
                            "ClearSentimentOverride"}}
        \cup {Command("SetSentimentOverride", v) : v \in OverrideValues}

\* AuthorityBridge::new: the bridge; command_rx holds what its sender sent.
AuthorityBridge_new ==
    [command_rx |-> <<>>, tactical_pause |-> FALSE, sentiment_override |-> None]

\* check_intervention, the match on the command received.
apply_command(bridge, cmd) ==
    CASE cmd.type = "Pause" -> [bridge EXCEPT !.tactical_pause = TRUE]
      [] cmd.type = "Resume" -> [bridge EXCEPT !.tactical_pause = FALSE]
      [] cmd.type = "SetSentimentOverride" ->
            [bridge EXCEPT !.sentiment_override = Some(cmd.value)]
      [] cmd.type = "ClearSentimentOverride" ->
            [bridge EXCEPT !.sentiment_override = None]
      [] OTHER -> bridge

\* A check that takes the newest command of the channel.
check_intervention_newest(bridge) ==
    IF bridge.command_rx = <<>> THEN [bridge |-> bridge, ret |-> None]
    ELSE [bridge |-> apply_command([bridge EXCEPT !.command_rx =
                                        SubSeq(@, 1, Len(@) - 1)],
                                   bridge.command_rx[Len(bridge.command_rx)]),
          ret |-> Some(bridge.command_rx[Len(bridge.command_rx)])]

\* AuthorityBridge::check_intervention: one try_recv.
check_intervention(bridge) ==
    IF bridge.command_rx = <<>> THEN [bridge |-> bridge, ret |-> None]
    ELSE [bridge |-> apply_command([bridge EXCEPT !.command_rx = Tail(@)],
                                   Head(bridge.command_rx)),
          ret |-> Some(Head(bridge.command_rx))]

\* A bridge that never reports a pause.
is_paused_never(bridge) == FALSE

\* AuthorityBridge::is_paused.
is_paused(bridge) == bridge.tactical_pause

\* An override that only replaces a sentiment Orient did supply.
apply_override_unless_blind(bridge, sentiment_score) ==
    IF IsSome(bridge.sentiment_override) /\ IsSome(sentiment_score)
    THEN bridge.sentiment_override
    ELSE sentiment_score

\* main.rs 585-588: the override, when set, replaces the sentiment of the
\* OODA state.
apply_override(bridge, sentiment_score) ==
    IF IsSome(bridge.sentiment_override) THEN bridge.sentiment_override
    ELSE sentiment_score

AuthInit ==
    /\ authority_bridge = AuthorityBridge_new
    /\ server_bridge = AuthorityBridge_new
    /\ auth_log = [op |-> "none", cmd |-> None, ret |-> None]

\* tx.send(cmd) on the sender of the bridge that is then checked, as the
\* tests of the bridge do.
BridgeSend(cmd) ==
    /\ Len(authority_bridge.command_rx) < MaxQueued
    /\ authority_bridge' = [authority_bridge EXCEPT !.command_rx = Append(@, cmd)]
    /\ auth_log' = [op |-> "send", cmd |-> Some(cmd), ret |-> None]
    /\ UNCHANGED server_bridge
    /\ UNCHANGED NotAuthority

\* bridge.check_intervention().
BridgeCheck ==
    \E r \in {check_intervention(authority_bridge)} :
    /\ authority_bridge' = r.bridge
    /\ auth_log' = [op |-> "check", cmd |-> None, ret |-> r.ret]
    /\ UNCHANGED server_bridge
    /\ UNCHANGED NotAuthority

\* inject_sovereign_command: the server sends on the sender it was given,
\* that of the first bridge, and acknowledges success.
ServerInject(cmd) ==
    /\ Len(server_bridge.command_rx) < MaxQueued
    /\ server_bridge' = [server_bridge EXCEPT !.command_rx = Append(@, cmd)]
    /\ auth_log' = [op |-> "inject", cmd |-> Some(cmd), ret |-> None]
    /\ UNCHANGED authority_bridge
    /\ UNCHANGED NotAuthority

\* The poll at the start of a cycle of the main loop (main.rs 433), on the
\* bridge created at main.rs 383.
PollIntervention ==
    \E r \in {check_intervention(authority_bridge)} :
    /\ authority_bridge' = r.bridge
    /\ auth_log' = [op |-> "poll", cmd |-> None, ret |-> r.ret]
    /\ UNCHANGED server_bridge
    /\ UNCHANGED NotAuthority

\* C27: every command the API accepted is eventually returned by a poll of
\* the main loop.
C27_AcceptedCommandsArrive ==
    \A c \in Commands :
        (auth_log.op = "inject" /\ auth_log.cmd = Some(c))
            ~> (auth_log.op = "poll" /\ auth_log.ret = Some(c))

\* C28 as stated: a check leaves the channel empty.
C28_CheckDrainsChannel ==
    auth_log.op = "check" => authority_bridge.command_rx = <<>>

\* C28: a check takes the oldest command of the channel, applies it and
\* returns it; the commands behind it stay queued in the order sent; on an
\* empty channel it returns nothing and changes nothing.
C28_CheckTakesOldest ==
    [][auth_log'.op = "check"
          => IF authority_bridge.command_rx = <<>>
             THEN auth_log'.ret = None /\ authority_bridge' = authority_bridge
             ELSE LET cmd == Head(authority_bridge.command_rx) IN
                  /\ auth_log'.ret = Some(cmd)
                  /\ authority_bridge'.command_rx = Tail(authority_bridge.command_rx)
                  /\ cmd.type = "Pause" => authority_bridge'.tactical_pause
                  /\ cmd.type = "Resume" => ~authority_bridge'.tactical_pause
                  /\ cmd.type = "SetSentimentOverride"
                        => authority_bridge'.sentiment_override = Some(cmd.value)
                  /\ cmd.type = "ClearSentimentOverride"
                        => authority_bridge'.sentiment_override = None]_vars

\* A check applied Pause while a sentiment override sent after it is still
\* waiting in the channel.
C28_Witness ==
    /\ auth_log.op = "check"
    /\ auth_log.ret = Some(Command("Pause", 0))
    /\ authority_bridge.tactical_pause
    /\ authority_bridge.command_rx = <<Command("SetSentimentOverride", 30)>>
    /\ authority_bridge.sentiment_override = None

(***************************************************************************)
(* The main loop (main.rs 394-734) with the rebalancer                     *)
(* (governor/rebalancer.rs), the authority bridge (governor/authority.rs)  *)
(* and OODACore::act.  One action is one pass through the loop body, up to *)
(* the break or continue that ends it.  Fidelity is x 100, equity in       *)
(* dollars.  What the nullifier buries during orient and what decide       *)
(* returns are inputs of the cycle.                                        *)
(***************************************************************************)

\* Rebalancer::new(50000.0) in main.
START_EQUITY == 50000

\* max_mdd_percent set by Rebalancer::new, in percent.
MAX_MDD_PERCENT == 15

\* Fidelity lost per nullification, x 100.
FIDELITY_PENALTY == 5

\* Fidelity below which get_safe_size locks observation mode, x 100.
OBSERVATION_FIDELITY == 50

\* Graves one orient can leave in the nullifier's buffer in the model.
MaxGraves == 11

\* Rebalancer::new.
Rebalancer_new(start_equity) == [fidelity |-> 100, start_equity |-> start_equity]

\* Rebalancer::punish_nullification.
punish_nullification(rb) ==
    [rb EXCEPT !.fidelity = IF @ - FIDELITY_PENALTY > 0 THEN @ - FIDELITY_PENALTY ELSE 0]

\* for _ in &graves { rebalancer.punish_nullification(); }
RECURSIVE punish_each(_, _)
punish_each(rb, graves) ==
    IF graves = 0 THEN rb ELSE punish_each(punish_nullification(rb), graves - 1)

\* Rebalancer::get_safe_size.
get_safe_size(rb, standard_size) ==
    IF rb.fidelity < OBSERVATION_FIDELITY THEN 0
    ELSE (standard_size * rb.fidelity) \div 100

\* Rebalancer::check_omega: drawdown = (start - current) / start > 15%.
check_omega(rb, current_equity) ==
    (rb.start_equity - current_equity) * 100 > MAX_MDD_PERCENT * rb.start_equity

\* Decision::default_hold.
default_hold == [action |-> "Hold", size |-> 0]

\* What decide can return when it sees this sentiment: its decisions over
\* the accelerations, from a core as OODACore::new leaves it.
CoreDecisions(sentiment_score) ==
    {[action |-> r.decision.action, size |-> r.decision.size] :
        r \in {decide(ProvisionalExecutive_new(0), VetoGate_new(0),
                      [physics |-> PhysicsOf(a, 5, 50, 95),
                       sentiment_score |-> sentiment_score],
                      "Neutral", 0) :
               a \in Accelerations}}

\* Every cycle may hand on whatever decide returns.
decision_gate_open(ig, sentiment_score) == CoreDecisions(sentiment_score)

\* main.rs 590-594: decide is called only when Ignited, else a forced Hold.
decision_gate(ig, sentiment_score) ==
    IF ig.state = "Ignited" THEN CoreDecisions(sentiment_score) ELSE {default_hold}

\* main.rs 574-582: orient runs when Ignited or in PennyTrade.
orient_gate(ig) == ig.state \in {"Ignited", "PennyTrade"}

\* ShadowGate::submit_order: an order is booked for a Buy or Sell of
\* positive quantity.
submit_order(decision) ==
    decision.action \in {"Buy", "Sell"} /\ decision.size > 0

\* SyncGate::check_late_l1.
check_late_l1 == TRUE

\* OODACore::act, the wire record: packed for a Buy or Sell that passes
\* the late check.
packs_wire(decision) ==
    decision.action \in {"Buy", "Sell"} /\ check_late_l1

\* What the cycles of the main-loop specification find in the channel:
\* nothing, Pause or Resume.
MainIncoming == {<<>>, <<Command("Pause", 0)>>, <<Command("Resume", 0)>>}

\* Jitter the sentinel measures in the main-loop specification.
MainJitters == {10, 120}

\* The inputs of the cycles of the sovereign-command specification: any
\* command, a calm sentinel, an equity within the Omega limit, and an
\* Orient that comes back blind or with a sentiment.
SovereignJitters == {10}

SovereignEquities == {42500}

SovereignSentiments == {None, Some(-50)}

\* Account equity the ledger reports: 15% down, 16% down.
Equities == {42500, 42000}

\* The channel of the polled bridge as a cycle finds it: empty, or holding
\* one command.
Incoming == {<<>>} \cup {<<cmd>> : cmd \in Commands}

\* authority_bridge.check_intervention() of a cycle that finds incoming in
\* the channel (main.rs 433).
Polled(incoming) ==
    check_intervention([authority_bridge EXCEPT !.command_rx = incoming])

\* The log entry of a cycle that ended before Orient on command cmd.
EarlyExit(cmd) ==
    [op |-> "cycle", cmd |-> cmd, gate |-> ignition.state,
     observed |-> FALSE, oriented |-> FALSE, decided |-> FALSE,
     orient_sentiment |-> None, decide_sentiment |-> None,
     act |-> None, shadow_order |-> FALSE, wire |-> FALSE,
     equity_written |-> FALSE]

MainInit ==
    /\ main = [running |-> TRUE, veto_active |-> FALSE, ignition_request |-> FALSE,
               equity |-> 0, graves |-> 0]
    /\ rebalancer = Rebalancer_new(START_EQUITY)
    /\ main_log = [EarlyExit(None) EXCEPT !.op = "none", !.gate = "Hibernation"]

\* The operator asks for ignition through the API (server.rs 294-299).
ApiIgnitionRequest ==
    /\ ~main.ignition_request
    /\ main' = [main EXCEPT !.ignition_request = TRUE]
    /\ UNCHANGED <<rebalancer, main_log>>
    /\ UNCHANGED ign_vars
    /\ UNCHANGED auth_vars
    /\ UNCHANGED NotMain

\* The origin guard of the stream API raises the veto (server.rs 415-420).
OriginGuardVeto ==
    /\ ~main.veto_active
    /\ main' = [main EXCEPT !.veto_active = TRUE]
    /\ UNCHANGED <<rebalancer, main_log>>
    /\ UNCHANGED ign_vars
    /\ UNCHANGED auth_vars
    /\ UNCHANGED NotMain

\* A cycle that receives Kill: the graves are drained and punished, then
\* the loop breaks (main.rs 401-440).
CycleKilled ==
    /\ main.running
    /\ rebalancer' = punish_each(rebalancer, main.graves)
    /\ main' = [main EXCEPT !.graves = 0, !.running = FALSE]
    /\ \E r \in {Polled(<<Command("Kill", 0)>>)} :
          /\ authority_bridge' = r.bridge
          /\ main_log' = EarlyExit(r.ret)
    /\ UNCHANGED <<server_bridge, auth_log>>
    /\ UNCHANGED ign_vars
    /\ UNCHANGED NotMain

\* A cycle that receives Veto: it is skipped by continue (main.rs 451-454).
CycleVetoed ==
    /\ main.running
    /\ rebalancer' = punish_each(rebalancer, main.graves)
    /\ main' = [main EXCEPT !.graves = 0]
    /\ \E r \in {Polled(<<Command("Veto", 0)>>)} :
          /\ authority_bridge' = r.bridge
          /\ main_log' = EarlyExit(r.ret)
    /\ UNCHANGED <<server_bridge, auth_log>>
    /\ UNCHANGED ign_vars
    /\ UNCHANGED NotMain

\* A cycle that finds the ingestion channel closed: the loop breaks
\* (main.rs 505-508), after the command and the ignition request were
\* served.
CycleIngestClosed(incoming) ==
    /\ main.running
    /\ rebalancer' = punish_each(rebalancer, main.graves)
    /\ main' = [main EXCEPT !.graves = 0, !.running = FALSE,
                            !.ignition_request = FALSE]
    /\ ignition' = IF main.ignition_request THEN initiate_launch(ignition) ELSE ignition
    /\ ign_log' = IF main.ignition_request
                  THEN IgnLogged("launch", ignition, ignition', FALSE)
                  ELSE ign_log
    /\ \E r \in {Polled(incoming)} :
          /\ authority_bridge' = r.bridge
          /\ main_log' = [EarlyExit(r.ret) EXCEPT !.gate = ignition'.state]
    /\ UNCHANGED <<sentinel, ign_now>>
    /\ UNCHANGED <<server_bridge, auth_log>>
    /\ UNCHANGED NotMain

\* A cycle that gets a tick, or times out waiting for one, and reaches
\* Orient, Decide and Act and the write of the shared state (a cycle that
\* receives Kill or Veto ends before the tick is taken), where an
\* active veto ends it by continue and an Omega breach raises the veto and
\* breaks the loop (main.rs 401-674).  sentiment_score is the sentiment
\* Orient returns if it runs, burials the numbers of graves it may leave.
CycleRun(incoming, jitter_us, ledger_equity, sentiment_score, burials) ==
    /\ main.running
    /\ incoming \notin {<<Command("Kill", 0)>>, <<Command("Veto", 0)>>}
    /\ rebalancer' = punish_each(rebalancer, main.graves)
    /\ sentinel' = Sentinel_tick(sentinel, jitter_us, ign_now)
    /\ \E launched \in {IF main.ignition_request THEN initiate_launch(ignition)
                        ELSE ignition} :
          /\ ignition' = ignition_update(launched, sentinel', TRUE, ign_now)
          /\ ign_log' = [op |-> "update", was |-> launched.state,
                         upstream_failed |-> sentinel'.status # "Optimal",
                         passed |-> Passed(Passed(ign_log.passed, launched.state),
                                           ignition'.state)]
    /\ \E r \in {Polled(incoming)} :
       \E oriented \in {IF orient_gate(ignition') THEN sentiment_score ELSE None} :
       \E seen \in {apply_override(r.bridge, oriented)} :
       \E decision \in decision_gate(ignition', seen),
          buried \in IF orient_gate(ignition') THEN burials ELSE {0} :
          LET paused == is_paused(r.bridge)
              omega == ~main.veto_active /\ check_omega(rebalancer', ledger_equity) IN
          /\ authority_bridge' = r.bridge
          /\ main' = [running |-> ~omega,
                      veto_active |-> main.veto_active \/ omega,
                      ignition_request |-> FALSE,
                      equity |-> ledger_equity,
                      graves |-> buried]
          /\ main_log' = [op |-> "cycle", cmd |-> r.ret,
                          gate |-> ignition'.state,
                          observed |-> TRUE,
                          oriented |-> orient_gate(ignition'),
                          decided |-> ignition'.state = "Ignited",
                          orient_sentiment |-> oriented,
                          decide_sentiment |-> seen,
                          act |-> IF paused THEN None ELSE Some(decision),
                          shadow_order |-> ~paused /\ submit_order(decision),
                          wire |-> ~paused /\ packs_wire(decision),
                          equity_written |-> TRUE]
    /\ UNCHANGED ign_now
    /\ UNCHANGED <<server_bridge, auth_log>>
    /\ UNCHANGED NotMain

\* C17: in a cycle whose ignition state is not Ignited, a decision handed
\* to Act is Hold and neither a shadow order nor a wire record is made;
\* Orient runs only in PennyTrade and Ignited.
C17_HoldUnlessIgnited ==
    main_log.op = "cycle"
        => /\ (main_log.gate # "Ignited" /\ IsSome(main_log.act))
                => /\ Unwrap(main_log.act).action = "Hold"
                   /\ ~main_log.shadow_order
                   /\ ~main_log.wire
           /\ main_log.gate # "Ignited" => ~main_log.shadow_order /\ ~main_log.wire
           /\ main_log.oriented => main_log.gate \in {"PennyTrade", "Ignited"}

\* A cycle in PennyTrade oriented and handed Hold to Act.
C17_Witness ==
    /\ main_log.op = "cycle"
    /\ main_log.gate = "PennyTrade"
    /\ main_log.oriented
    /\ main_log.act = Some(default_hold)

\* C18: the loop stops only in a cycle that received Kill or that ended
\* with the drawdown above the Omega limit.
C18_StopsOnlyOnOmegaOrKill ==
    [][(main.running /\ ~main'.running)
          => \/ main_log'.cmd = Some(Command("Kill", 0))
             \/ (main_log'.equity_written /\ check_omega(rebalancer', main'.equity))]_vars

\* C19: after a cycle that wrote an account equity more than 15% below the
\* starting equity, the veto is raised and the loop has stopped.
C19_OmegaStopsSameCycle ==
    (/\ main_log.op = "cycle"
     /\ main_log.equity_written
     /\ check_omega(rebalancer, main.equity))
        => main.veto_active /\ ~main.running

C22_OverrideReplacesSentiment ==
    [][/\ authority_bridge'.sentiment_override # authority_bridge.sentiment_override
            => IF IsSome(authority_bridge'.sentiment_override)
               THEN /\ IsSome(main_log'.cmd)
                    /\ Unwrap(main_log'.cmd).type = "SetSentimentOverride"
                    /\ Unwrap(main_log'.cmd).value
                            = Unwrap(authority_bridge'.sentiment_override)
               ELSE main_log'.cmd = Some(Command("ClearSentimentOverride", 0))
       /\ (main_log'.op = "cycle" /\ main_log'.observed
           /\ IsSome(authority_bridge'.sentiment_override))
            => main_log'.decide_sentiment = authority_bridge'.sentiment_override]_vars

\* A cycle after the one that set the override ran Ignited: Orient came
\* back blind and Decide saw the override.
C22_Witness ==
    /\ main_log.op = "cycle"
    /\ main_log.cmd = None
    /\ main_log.decided
    /\ main_log.oriented
    /\ main_log.orient_sentiment = None
    /\ authority_bridge.sentiment_override = Some(30)
    /\ main_log.decide_sentiment = Some(30)

\* C23: a cycle that starts with the global veto set hands nothing to Act
\* and makes no shadow order and no wire record.
C23_VetoStopsAct ==
    [][(main.veto_active /\ main_log' # main_log)
          => /\ main_log'.act = None
             /\ ~main_log'.shadow_order
             /\ ~main_log'.wire]_vars

MaxOrders == 2

\* Last clock reading of the shadow gate model.
MaxShadowNow == 3

\* latency_simulation_ms set by ShadowGate::new, in clock steps.
LATENCY_SIMULATION == 2

\* max_drift_bps set by SyncGate::new.
MAX_DRIFT_BPS == 10

\* max_latency_ms set by SyncGate::new.
MAX_LATENCY_MS == 500

\* max_staleness_ticks_low_entropy set by SyncGate::new.
MAX_STALENESS_LOW_ENTROPY == 20

\* max_staleness_ticks_high_entropy set by SyncGate::new.
MAX_STALENESS_HIGH_ENTROPY == 5

\* ShadowGate::new.
ShadowGate_new == [virtual_book |-> <<>>]

\* ShadowOrder, Pending.
ShadowOrder(side, qty, limit_price, created_at) ==
    [side |-> side, qty |-> qty, limit_price |-> limit_price,
     created_at |-> created_at, status |-> "Pending", fill_price |-> None]

\* A submit that books Buy and Sell whatever the quantity.
shadow_submit_unsized(gate, decision, price, now) ==
    IF decision.action \in {"Buy", "Sell"}
    THEN [gate EXCEPT !.virtual_book =
            Append(@, ShadowOrder(IF decision.action = "Buy" THEN "BUY" ELSE "SELL",
                                  decision.size, price, now))]
    ELSE gate

\* ShadowGate::submit_order at clock reading now.
shadow_submit(gate, decision, price, now) ==
    IF submit_order(decision)
    THEN [gate EXCEPT !.virtual_book =
            Append(@, ShadowOrder(IF decision.action = "Buy" THEN "BUY" ELSE "SELL",
                                  decision.size, price, now))]
    ELSE gate

\* check_fills, the matching predicate of an order's side.
is_fill(order, current_price) ==
    CASE order.side = "BUY" -> current_price <= order.limit_price
      [] order.side = "SELL" -> current_price >= order.limit_price
      [] OTHER -> FALSE

\* A check that fills without waiting for the simulated latency.
check_fills_instant(gate, current_price, now) ==
    [gate EXCEPT !.virtual_book =
        [i \in DOMAIN @ |->
            IF @[i].status = "Pending" /\ is_fill(@[i], current_price)
            THEN [@[i] EXCEPT !.status = "Filled", !.fill_price = Some(current_price)]
            ELSE @[i]]]

\* ShadowGate::check_fills at clock reading now.
check_fills(gate, current_price, now) ==
    [gate EXCEPT !.virtual_book =
        [i \in DOMAIN @ |->
            IF /\ @[i].status = "Pending"
               /\ ~(now < @[i].created_at + LATENCY_SIMULATION)
               /\ is_fill(@[i], current_price)
            THEN [@[i] EXCEPT !.status = "Filled", !.fill_price = Some(current_price)]
            ELSE @[i]]]

\* SyncGate::measure_latency passes.
measure_latency(duration_ms) == ~(duration_ms > MAX_LATENCY_MS)

\* SyncGate::check_drift passes.
check_drift(start_price, current_price) ==
    ~(Abs(current_price - start_price) * 10000 > MAX_DRIFT_BPS * start_price)

\* SyncGate::check_staleness passes.
check_staleness(start_seq, current_seq, regime_id) ==
    \/ current_seq < start_seq
    \/ ~(current_seq - start_seq >
            IF regime_id \in {2, 3} THEN MAX_STALENESS_HIGH_ENTROPY
            ELSE MAX_STALENESS_LOW_ENTROPY)

\* OODACore::act, the wire records packed for a decision.
wire_records(decision) == IF packs_wire(decision) THEN 1 ELSE 0

\* Decisions handed to act; sizes in 1/10000 lots.
ShadowDecisions ==
    {[action |-> "Hold", size |-> 0], [action |-> "Halt", size |-> 0],
     [action |-> "Buy", size |-> 50], [action |-> "Sell", size |-> 50],
     [action |-> "Buy", size |-> 0]}

\* Marks, in cents.
Marks == {9900, 10000, 10100}

\* What the cycle has seen since orient began: the price then, the sequence
\* lag, the regime and the time elapsed in ms.
SyncReadings ==
    {[start_price |-> 10000, lag |-> 0, regime_id |-> 0, duration_ms |-> 20],
     [start_price |-> 10000, lag |-> 6, regime_id |-> 2, duration_ms |-> 20],
     [start_price |-> 10000, lag |-> 0, regime_id |-> 0, duration_ms |-> 600]}

\* The three gates of the sync gate on a reading, at the current price.
gates_pass(reading, current_price) ==
    /\ measure_latency(reading.duration_ms)
    /\ check_drift(reading.start_price, current_price)
    /\ check_staleness(0, reading.lag, reading.regime_id)

ShadowInit ==
    /\ shadow_now = 0
    /\ shadow_gate = ShadowGate_new
    /\ shadow_log = [op |-> "none", decision |-> default_hold, price |-> 10000,
                     gates |-> TRUE, wire |-> 0, call |-> 0]

\* Time passes between calls.
ShadowAdvance ==
    /\ shadow_now < MaxShadowNow
    /\ shadow_now' = shadow_now + 1
    /\ UNCHANGED <<shadow_gate, shadow_log>>
    /\ UNCHANGED NotShadow

\* orient begins by checking the fills at the physics price
\* (ooda_loop.rs 137).
ShadowCheckFills(current_price) ==
    /\ shadow_gate' = check_fills(shadow_gate, current_price, shadow_now)
    /\ shadow_log' = [op |-> "check_fills", decision |-> default_hold,
                      price |-> current_price, gates |-> TRUE, wire |-> 0,
                      call |-> 1 - shadow_log.call]
    /\ UNCHANGED shadow_now
    /\ UNCHANGED NotShadow

\* core.act(decision, current_price), reading being what the sync gate
\* would judge.
Act(decision, current_price, reading) ==
    /\ Len(shadow_gate.virtual_book) < MaxOrders
    /\ shadow_gate' = shadow_submit(shadow_gate, decision, current_price, shadow_now)
    /\ shadow_log' = [op |-> "act", decision |-> decision, price |-> current_price,
                      gates |-> gates_pass(reading, current_price),
                      wire |-> wire_records(decision),
                      call |-> 1 - shadow_log.call]
    /\ UNCHANGED shadow_now
    /\ UNCHANGED NotShadow

\* C25: check_fills(mark) fills a Pending order exactly when the simulated
\* latency has elapsed since its creation and the mark is at or below the
\* limit of a Buy, at or above the limit of a Sell; the fill price is the
\* mark, and every other order is left as it was.
C25_FillsOnLatencyAndPrice ==
    [][(shadow_log'.op = "check_fills" /\ shadow_log'.call # shadow_log.call)
          => /\ DOMAIN shadow_gate'.virtual_book = DOMAIN shadow_gate.virtual_book
             /\ \A i \in DOMAIN shadow_gate.virtual_book :
                  LET order == shadow_gate.virtual_book[i]
                      after == shadow_gate'.virtual_book[i]
                      mark == shadow_log'.price
                      due == /\ order.status = "Pending"
                             /\ shadow_now - order.created_at >= LATENCY_SIMULATION
                             /\ \/ order.side = "BUY" /\ mark <= order.limit_price
                                \/ order.side = "SELL" /\ mark >= order.limit_price IN
                  /\ due => after = [order EXCEPT !.status = "Filled",
                                                  !.fill_price = Some(mark)]
                  /\ ~due => after = order]_vars

\* A check filled a Sell above its limit and left a younger Buy pending.
C25_Witness ==
    /\ shadow_log.op = "check_fills"
    /\ shadow_log.price = 10100
    /\ Len(shadow_gate.virtual_book) = 2
    /\ shadow_gate.virtual_book[1].side = "SELL"
    /\ shadow_gate.virtual_book[1].limit_price = 10000
    /\ shadow_gate.virtual_book[1].status = "Filled"
    /\ shadow_gate.virtual_book[1].fill_price = Some(10100)
    /\ shadow_gate.virtual_book[2].side = "BUY"
    /\ shadow_gate.virtual_book[2].status = "Pending"

\* C26 as stated: act adds one Pending order at the mark for every decision
\* whose action is not Hold.
C26_EveryNonHoldSubmits ==
    [][(/\ shadow_log'.op = "act" /\ shadow_log'.call # shadow_log.call
        /\ shadow_log'.decision.action # "Hold")
          =>       /\ Len(shadow_gate'.virtual_book) = Len(shadow_gate.virtual_book) + 1
                   /\ shadow_gate'.virtual_book[Len(shadow_gate'.virtual_book)].status
                            = "Pending"
                   /\ shadow_gate'.virtual_book[Len(shadow_gate'.virtual_book)].limit_price
                            = shadow_log'.price]_vars

\* C26: act adds one Pending order at the mark, with the decision's side
\* and quantity, for every Buy or Sell of positive quantity, and leaves the
\* book as it is for Hold, Halt and a quantity of zero.
C26_BuySellSubmits ==
    [][(shadow_log'.op = "act" /\ shadow_log'.call # shadow_log.call)
          => LET d == shadow_log'.decision IN
             IF d.action \in {"Buy", "Sell"} /\ d.size > 0
             THEN shadow_gate'.virtual_book =
                    Append(shadow_gate.virtual_book,
                           [side |-> IF d.action = "Buy" THEN "BUY" ELSE "SELL",
                            qty |-> d.size, limit_price |-> shadow_log'.price,
                            created_at |-> shadow_now, status |-> "Pending",
                            fill_price |-> None])
             ELSE shadow_gate' = shadow_gate]_vars

\* act booked a second order, a Sell at the mark 9900.
C26_Witness ==
    /\ shadow_log.op = "act"
    /\ shadow_log.decision = [action |-> "Sell", size |-> 50]
    /\ Len(shadow_gate.virtual_book) = 2
    /\ shadow_gate.virtual_book[2].side = "SELL"
    /\ shadow_gate.virtual_book[2].limit_price = 9900
    /\ shadow_gate.virtual_book[2].status = "Pending"

\* C29: act packs a wire record for a Buy or Sell only if the latency, drift
\* and staleness gates pass, never more than one, and books the shadow
\* order either way.
C29_WireOnlyThroughGates ==
    (shadow_log.op = "act" /\ shadow_log.decision.action \in {"Buy", "Sell"})
        => /\ shadow_log.wire > 0 => shadow_log.gates
           /\ shadow_log.wire <= 1
           /\ shadow_log.decision.size > 0
                => /\ shadow_gate.virtual_book # <<>>
                   /\ shadow_gate.virtual_book[Len(shadow_gate.virtual_book)].status
                        = "Pending"

\* C30: the max_risk decide multiplies by |signal| is the size the staircase
\* exposes through get_position_size, so a decide made while the staircase
\* is in cooldown returns no Buy or Sell above the size of tier 0.
C30_CooldownCapsDecide ==
    [][(/\ ooda_log'.op = "decide"
        /\ UNCHANGED <<st_vars, ooda_now>>
        /\ is_in_cooldown(staircase, st_now)
        /\ ooda_log'.decision.action \in {"Buy", "Sell"})
          => /\ ooda_log'.max_risk = get_position_size(staircase, st_now)
             /\ ooda_log'.decision.size <= position_size(Q0)]_vars

C37_LoopReachesIgnited == <>(ignition.state = "Ignited")

(***************************************************************************)
(* The physics engine's efficiency index (feynman.rs).  Ticks arrive one   *)
(* per unit of time from t = 0; prices are whole numbers and the           *)
(* efficiency is kept in thousandths, rounded down.  The model feeds fewer *)
(* ticks than the slow window or the capacity hold, so the window starts   *)
(* at the first tick.                                                      *)
(***************************************************************************)

\* Ticks fed to the engine.
MaxTicks == 61

\* slow_window set by PhysicsEngine::new.
SLOW_WINDOW == 1000

\* The recalculation period of update: count % 10 == 0.
RECALC_EVERY == 10

\* The history update asks for before it recalculates: len() > 50.
RECALC_MIN_HISTORY == 50

\* The samples calculate_efficiency asks for: fewer than 5 give 0.
EFFICIENCY_MIN_SAMPLES == 5

\* PhysicsEngine::new; prev_state is PhysicsState::default().
PhysicsEngine_new ==
    [history |-> <<>>, count |-> 0, prev_state |-> [price |-> 0, efficiency_index |-> 0]]

\* The sum of the absolute changes of a price series.
SumAbsChanges(prices) ==
    LET RECURSIVE go(_, _)
        go(i, acc) == IF i >= Len(prices) THEN acc
                      ELSE go(i + 1, acc + Abs(prices[i + 1] - prices[i])) IN
    go(1, 0)

\* |p_end - p_start| / sum |dp| of a price series, in thousandths.
EfficiencyRatio(prices) ==
    IF SumAbsChanges(prices) = 0
    THEN IF prices[Len(prices)] # prices[1] THEN 1000 ELSE 0
    ELSE (Abs(prices[Len(prices)] - prices[1]) * 1000) \div SumAbsChanges(prices)

\* PhysicsEngine::calculate_efficiency over the slow window of the history.
calculate_efficiency(history) ==
    LET start_idx == IF Len(history) > SLOW_WINDOW THEN Len(history) - SLOW_WINDOW ELSE 0 IN
    IF Len(history) - start_idx < EFFICIENCY_MIN_SAMPLES THEN 0
    ELSE EfficiencyRatio(SubSeq(history, start_idx + 1, Len(history)))

\* PhysicsEngine::update, its history, count and efficiency index: the
\* first tick finds a zero time delta and returns the previous state with
\* the new price, leaving prev_state alone; later ticks recalculate the
\* efficiency when the count is a multiple of ten and the history holds
\* more than fifty samples, and carry the previous value otherwise.
physics_update(engine, price) ==
    LET history == Append(engine.history, price)
        count == engine.count + 1 IN
    IF Len(history) = 1
    THEN [engine |-> [engine EXCEPT !.history = history, !.count = count],
          ret |-> [engine.prev_state EXCEPT !.price = price]]
    ELSE LET state == [price |-> price,
                       efficiency_index |->
                          IF count % RECALC_EVERY = 0 /\ Len(history) > RECALC_MIN_HISTORY
                          THEN calculate_efficiency(history)
                          ELSE engine.prev_state.efficiency_index] IN
         [engine |-> [history |-> history, count |-> count, prev_state |-> state],
          ret |-> state]

\* The price series fed to the engine: two sawtooths, a ramp, a flat line.
Tapes == {"sawtooth", "sawtooth_down", "ramp", "flat"}

\* The price of tick i (from 0) of a tape.
TapePrice(tape, i) ==
    CASE tape = "sawtooth" -> 10 + (i % 2)
      [] tape = "sawtooth_down" -> 11 - (i % 2)
      [] tape = "ramp" -> 10 + i
      [] OTHER -> 10

PhysicsInit ==
    /\ physics_tape = None
    /\ physics_engine = PhysicsEngine_new
    /\ psi = PhysicsEngine_new.prev_state

\* feynman.update(price, ...) on the next tick of the tape; the first tick
\* settles which series the market follows.
PhysicsTick(tape) ==
    /\ physics_engine.count < MaxTicks
    /\ physics_tape \in {None, Some(tape)}
    /\ \E r \in {physics_update(physics_engine, TapePrice(tape, physics_engine.count))} :
          /\ physics_engine' = r.engine
          /\ psi' = r.ret
    /\ physics_tape' = Some(tape)
    /\ UNCHANGED NotPhysics

\* C40: the efficiency index of the emitted state is |p_end - p_start| over
\* the sum of |dp| of the samples held so far, also for short histories: it
\* is 0.2 after the six ticks 10, 11, 10, 11, 10, 11.
C40_EfficiencyOfHeldSamples ==
    /\ Len(physics_engine.history) >= EFFICIENCY_MIN_SAMPLES
          => psi.efficiency_index = EfficiencyRatio(physics_engine.history)
    /\ physics_engine.history = <<10, 11, 10, 11, 10, 11>>
          => psi.efficiency_index = 200

(***************************************************************************)
(* The regime detector (governor/regime_detector.rs).  Coherence and       *)
(* entropy are in hundredths.                                              *)
(***************************************************************************)

\* Updates the model counts in a run of one raw classification.
MaxRun == 6

\* MarketRegime.
MarketRegimes == {"Laminar", "Turbulent", "Decoherent"}

\* The confirmations detectors are built with: 5 by main, 3 and 0 by the
\* tests of the module, and the values between them.
Confirmations == 0..5

\* RegimeDetector::new.
RegimeDetector_new(required_confirmations) ==
    [current_regime |-> "Laminar", pending_regime |-> None,
     confirmation_counter |-> 0, required_confirmations |-> required_confirmations]

\* RegimeDetector::classify_snapshot.
classify_snapshot(coherence, entropy) ==
    IF entropy > 80 \/ coherence < 20 THEN "Decoherent"
    ELSE IF coherence > 70 /\ entropy < 40 THEN "Laminar"
    ELSE "Turbulent"

\* RegimeDetector::apply_hysteresis.
apply_hysteresis(d, candidate) ==
    IF candidate = d.current_regime
    THEN [d EXCEPT !.pending_regime = None, !.confirmation_counter = 0]
    ELSE IF d.pending_regime = Some(candidate)
    THEN IF d.confirmation_counter + 1 >= d.required_confirmations
         THEN [d EXCEPT !.current_regime = candidate, !.pending_regime = None,
                        !.confirmation_counter = 0]
         ELSE [d EXCEPT !.confirmation_counter = @ + 1]
    ELSE [d EXCEPT !.pending_regime = Some(candidate), !.confirmation_counter = 1]

\* RegimeDetector::update.
regime_update(d, coherence, entropy) ==
    apply_hysteresis(d, classify_snapshot(coherence, entropy))

\* The wave metrics of the updates: one snapshot of each regime.
Snapshots ==
    {[coherence |-> 90, entropy |-> 10], [coherence |-> 50, entropy |-> 50],
     [coherence |-> 10, entropy |-> 90]}

\* main builds its detector with five confirmations (main.rs 317).
RegimeInit ==
    /\ regime_detector = RegimeDetector_new(5)
    /\ regime_log = [op |-> "new", raw |-> "Laminar", was |-> "Laminar", run |-> 0]

\* Another detector is built.
RegimeNew(required_confirmations) ==
    /\ regime_detector' = RegimeDetector_new(required_confirmations)
    /\ regime_log' = [op |-> "new", raw |-> "Laminar", was |-> "Laminar", run |-> 0]
    /\ UNCHANGED NotRegime

\* regime_detector.update(coherence, entropy).  The log keeps the raw
\* classification, the regime before the call and the length of the run of
\* updates, this one included, classified as this one regime other than the
\* current one; a switch or a classification as the current regime ends
\* the run.
RegimeUpdate(snapshot) ==
    LET raw == classify_snapshot(snapshot.coherence, snapshot.entropy)
        run == IF raw = regime_detector.current_regime THEN 0
               ELSE IF regime_log.run > 0 /\ regime_log.raw = raw
                       /\ regime_log.was = regime_detector.current_regime
               THEN regime_log.run + 1
               ELSE 1 IN
    /\ run <= MaxRun
    /\ regime_detector' = regime_update(regime_detector, snapshot.coherence,
                                        snapshot.entropy)
    /\ regime_log' = [op |-> "update", raw |-> raw,
                      was |-> regime_detector.current_regime, run |-> run]
    /\ UNCHANGED NotRegime

\* C38: the detector switches exactly on the N-th consecutive update that
\* is classified as one same regime other than the current one, N being
\* required_confirmations, and an update classified as the current regime
\* clears the pending candidate and its count.
C38_SwitchOnNthConfirmation ==
    regime_log.op = "update"
        => /\ (regime_detector.current_regime # regime_log.was)
                <=> /\ regime_log.run > 0
                    /\ regime_log.run = regime_detector.required_confirmations
           /\ regime_detector.current_regime # regime_log.was
                => regime_detector.current_regime = regime_log.raw
           /\ regime_log.raw = regime_log.was
                => /\ regime_detector.pending_regime = None
                   /\ regime_detector.confirmation_counter = 0

(***************************************************************************)
(* The sentinel's latency ring and jitter (governor/sentinel.rs 58-100).   *)
(* Cycle times are in microseconds; the jitter is the standard deviation   *)
(* rounded up to a whole microsecond, which compares with a whole          *)
(* threshold as the deviation itself does.                                 *)
(***************************************************************************)

\* Cycle times the model's ring takes; the program's ring holds 100.
MaxSamples == 12

\* The samples tick asks for before it computes a jitter: count > 10.
JITTER_MIN_SAMPLES == 10

\* The sum of a sequence of numbers.
SumOf(xs) ==
    LET RECURSIVE go(_, _)
        go(i, acc) == IF i > Len(xs) THEN acc ELSE go(i + 1, acc + xs[i]) IN
    go(1, 0)

\* count^2 times the variance of the samples: count * sum x^2 - (sum x)^2.
ScaledVariance(xs) ==
    Len(xs) * SumOf([i \in DOMAIN xs |-> xs[i] * xs[i]]) - SumOf(xs) * SumOf(xs)

\* The least k from k0 on with k * k * scale >= v: the square root of
\* v / scale rounded up.
RECURSIVE CeilRoot(_, _, _)
CeilRoot(v, scale, k0) ==
    IF k0 * k0 * scale >= v THEN k0 ELSE CeilRoot(v, scale, k0 + 1)

\* Sentinel::tick, current_jitter_us after the sample was pushed: the
\* standard deviation of the ring, rounded up, once it holds more than ten
\* samples, else 0.
current_jitter_us(history) ==
    IF Len(history) > JITTER_MIN_SAMPLES
    THEN CHOOSE k \in UNION {{CeilRoot(v, Len(history) * Len(history), 0)} :
                                v \in {ScaledVariance(history)}} : TRUE
    ELSE 0

\* Cycle times the loop measures.
CycleTimes == {100, 240}

VitalityInit ==
    /\ sentinel_history = <<>>
    /\ vitality_log = [op |-> "none", jitter_us |-> 0]

\* sentinel.tick() after a cycle that took elapsed microseconds.
SentinelMeasure(elapsed) ==
    /\ Len(sentinel_history) < MaxSamples
    /\ sentinel_history' = Append(sentinel_history, elapsed)
    /\ \E jitter_us \in {current_jitter_us(sentinel_history')} :
          /\ sentinel' = Sentinel_tick(sentinel, jitter_us, ign_now)
          /\ vitality_log' = [op |-> "tick", jitter_us |-> jitter_us]
    /\ UNCHANGED <<ignition, ign_now, ign_log>>
    /\ UNCHANGED NotVitality

\* C39: each tick reports Critical when the jitter over the latency ring
\* exceeds 50 microseconds, Degraded when it exceeds 25, Optimal otherwise.
C39_StatusThresholds ==
    vitality_log.op = "tick"
        => sentinel.status =
              IF vitality_log.jitter_us > 50 THEN "Critical"
              ELSE IF vitality_log.jitter_us > 25 THEN "Degraded"
              ELSE "Optimal"

(***************************************************************************)
(* The side-channels of the core (ooda_loop.rs 394-427, main.rs 244-270)   *)
(* and the decay monitor (telemetry/decay.rs).  A packet is its trace id,  *)
(* its decision string, and the price (whole numbers) and |jerk| of its    *)
(* physics; a decay is in basis points of the expected price.              *)
(***************************************************************************)

\* Packets a channel of the model holds; the program's hold 1024.
ChannelCapacity == 2

\* Trades the model's window holds; the program's holds 100.
WindowCapacity == 2

\* |jerk| > 50.0, the jerk filter of process_fill.
JERK_FILTER == 50

\* rolling_decay > 0.15, in basis points.
DECAY_CRITICAL == 1500

\* The price at decision time of the model's packets.
ExpectedPrice == 100

SideChannels == {"forensic", "mirror", "decay"}

TraceIds == {1, 2}

\* format!("{:?}", decision.action): the Debug text of the action, the size
\* in 1/10000 lots.
debug_action(decision) ==
    IF decision.action \in {"Buy", "Sell"}
    THEN decision.action \o "(" \o ToString(decision.size) \o ")"
    ELSE decision.action

\* The DecisionPacket log_forensics builds and seals.
DecisionPacket(trace_id, decision_text, jerk) ==
    [trace_id |-> trace_id, decision |-> decision_text,
     price |-> ExpectedPrice, jerk |-> jerk]

\* mpsc::Sender::try_send on a bounded channel: Ok, or Err(Full) and the
\* packet is dropped.
try_send(channel, packet) ==
    IF Len(channel) < ChannelCapacity THEN Append(channel, packet) ELSE channel

\* A fan-out that gives up at the first full channel.
log_forensics_until_full(channels, packet) ==
    LET sent1 == Len(channels.forensic) < ChannelCapacity
        sent2 == sent1 /\ Len(channels.mirror) < ChannelCapacity
        sent3 == sent2 /\ Len(channels.decay) < ChannelCapacity IN
    [forensic |-> IF sent1 THEN Append(channels.forensic, packet) ELSE channels.forensic,
     mirror |-> IF sent2 THEN Append(channels.mirror, packet) ELSE channels.mirror,
     decay |-> IF sent3 THEN Append(channels.decay, packet) ELSE channels.decay]

\* OODACore::log_forensics: one try_send per side-channel.
log_forensics(channels, packet) ==
    [forensic |-> try_send(channels.forensic, packet),
     mirror |-> try_send(channels.mirror, packet),
     decay |-> try_send(channels.decay, packet)]

\* DecayMonitor::new.
DecayMonitor_new ==
    [pending_decisions |-> [t \in {} |-> 0], trade_window |-> <<>>, rolling_decay |-> 0]

\* DecayMonitor::run, the decision branch: only BUY and SELL are tracked.
track_decision(dm, packet) ==
    IF packet.decision = "BUY" \/ packet.decision = "SELL"
    THEN [dm EXCEPT !.pending_decisions =
            [t \in DOMAIN @ \cup {packet.trace_id} |->
                IF t = packet.trace_id THEN packet ELSE @[t]]]
    ELSE dm

\* process_fill, the decay of a matched fill in basis points.
decay_pct(decision, fill) ==
    LET decay_raw == CASE decision.decision = "BUY" -> fill.fill_price - decision.price
                       [] decision.decision = "SELL" -> decision.price - fill.fill_price
                       [] OTHER -> 0 IN
    IF decision.price # 0 THEN (decay_raw * 10000) \div decision.price ELSE 0

\* process_fill, the window after a record is pushed.
push_record(trade_window, adjusted_decay) ==
    Append(IF Len(trade_window) >= WindowCapacity THEN Tail(trade_window)
           ELSE trade_window,
           adjusted_decay)

\* DecayMonitor::process_fill: the monitor after the fill, and whether the
\* fill was an orphan.
process_fill(dm, fill) ==
    IF fill.trace_id \in DOMAIN dm.pending_decisions
    THEN LET decision == dm.pending_decisions[fill.trace_id]
             rest == [t \in DOMAIN dm.pending_decisions \ {fill.trace_id} |->
                        dm.pending_decisions[t]]
             adjusted_decay == IF decision.jerk > JERK_FILTER THEN 0
                               ELSE decay_pct(decision, fill)
             window == push_record(dm.trade_window, adjusted_decay) IN
         [dm |-> [pending_decisions |-> rest, trade_window |-> window,
                  rolling_decay |-> IF Len(window) > 0
                                    THEN SumSeq(window) \div Len(window)
                                    ELSE dm.rolling_decay],
          orphan |-> FALSE]
    ELSE [dm |-> dm, orphan |-> TRUE]

\* No call yet on the side-channels.
NoFanout ==
    [op |-> "none", decision |-> default_hold, full |-> {}, took |-> {},
     returned |-> default_hold, acted |-> FALSE]

\* No call yet of the monitor.
NoDecay == [op |-> "none", trace_id |-> 0, orphan |-> FALSE, filtered |-> FALSE]

FanoutInit ==
    /\ side_channels = [forensic |-> <<>>, mirror |-> <<>>, decay |-> <<>>]
    /\ decay_fill_rx = <<>>
    /\ decay_monitor = DecayMonitor_new
    /\ fanned_out = {}
    /\ fan_log = NoFanout
    /\ decay_log = NoDecay

\* core.decide(..) of a cycle (main.rs 590-594): before it returns, decide
\* seals the packet of its decision and fans it out (ooda_loop.rs 305, 334,
\* 390).  The log keeps the channels that were full, those that took the
\* packet, and the decision returned.
CoreDecide(trace_id, decision) ==
    /\ fan_log.op # "decide"
    /\ \E packet \in {DecisionPacket(trace_id, debug_action(decision), 0)} :
          /\ side_channels' = log_forensics(side_channels, packet)
          /\ fan_log' = [op |-> "decide", decision |-> decision,
                         full |-> {c \in SideChannels :
                                      Len(side_channels[c]) >= ChannelCapacity},
                         took |-> {c \in SideChannels :
                                      side_channels'[c] # side_channels[c]},
                         returned |-> decision, acted |-> FALSE]
          /\ fanned_out' = IF decision.action \in {"Buy", "Sell"}
                              /\ side_channels'.decay # side_channels.decay
                           THEN fanned_out \cup {trace_id} ELSE fanned_out
    /\ UNCHANGED <<decay_fill_rx, decay_monitor, decay_log>>
    /\ UNCHANGED NotFanout

\* ooda.act(decision, price) of the same cycle (main.rs 598-602).
CoreAct ==
    /\ fan_log.op = "decide"
    /\ fan_log' = [fan_log EXCEPT !.op = "act", !.acted = TRUE]
    /\ UNCHANGED <<side_channels, decay_fill_rx, decay_monitor, fanned_out, decay_log>>
    /\ UNCHANGED NotFanout

\* The same cycle under tactical pause: act is skipped.
CorePaused ==
    /\ fan_log.op = "decide"
    /\ fan_log' = [fan_log EXCEPT !.op = "paused"]
    /\ UNCHANGED <<side_channels, decay_fill_rx, decay_monitor, fanned_out, decay_log>>
    /\ UNCHANGED NotFanout

\* The scribe or the mirror takes a packet from its channel.
ActorRecv(c) ==
    /\ side_channels[c] # <<>>
    /\ side_channels' = [side_channels EXCEPT ![c] = Tail(@)]
    /\ UNCHANGED <<decay_fill_rx, decay_monitor, fanned_out, fan_log, decay_log>>
    /\ UNCHANGED NotFanout

\* A packet built as tests/verify_decay.rs builds it is sent on the decay
\* channel (send().await: the sender waits while the channel is full).
HarnessSendDecision(trace_id, side, jerk) ==
    /\ Len(side_channels.decay) < ChannelCapacity
    /\ side_channels' = [side_channels EXCEPT
                            !.decay = Append(@, DecisionPacket(trace_id, side, jerk))]
    /\ fanned_out' = fanned_out \cup {trace_id}
    /\ UNCHANGED <<decay_fill_rx, decay_monitor, fan_log, decay_log>>
    /\ UNCHANGED NotFanout

\* A fill is sent for a trade whose decision packet was sent on the decay
\* channel before.
SendFill(trace_id, fill_price) ==
    /\ trace_id \in fanned_out
    /\ Len(decay_fill_rx) < ChannelCapacity
    /\ decay_fill_rx' = Append(decay_fill_rx,
                               [trace_id |-> trace_id, fill_price |-> fill_price])
    /\ UNCHANGED <<side_channels, decay_monitor, fanned_out, fan_log, decay_log>>
    /\ UNCHANGED NotFanout

\* DecayMonitor::run, the branch of select! that takes a decision.
MonitorRecvDecision ==
    /\ side_channels.decay # <<>>
    /\ side_channels' = [side_channels EXCEPT !.decay = Tail(@)]
    /\ decay_monitor' = track_decision(decay_monitor, Head(side_channels.decay))
    /\ decay_log' = [op |-> "decision", trace_id |-> Head(side_channels.decay).trace_id,
                     orphan |-> FALSE, filtered |-> FALSE]
    /\ UNCHANGED <<decay_fill_rx, fanned_out, fan_log>>
    /\ UNCHANGED NotFanout

\* DecayMonitor::run, the branch of select! that takes a fill.  filtered
\* records a matched fill whose decision had |jerk| above the filter.
MonitorRecvFill ==
    /\ decay_fill_rx # <<>>
    /\ decay_fill_rx' = Tail(decay_fill_rx)
    /\ \E r \in {process_fill(decay_monitor, Head(decay_fill_rx))} :
          /\ decay_monitor' = r.dm
          /\ decay_log' =
                [op |-> "fill", trace_id |-> Head(decay_fill_rx).trace_id,
                 orphan |-> r.orphan,
                 filtered |-> /\ ~r.orphan
                              /\ decay_monitor.pending_decisions[
                                    Head(decay_fill_rx).trace_id].jerk > JERK_FILTER]
    /\ UNCHANGED <<side_channels, fanned_out, fan_log>>
    /\ UNCHANGED NotFanout

\* C31: the packet of a decision is fanned out to the side-channels only
\* after Act has handled that decision.
C31_FanoutAfterAct ==
    (fan_log.op \in {"decide", "act", "paused"} /\ fan_log.took # {})
        => fan_log.acted

\* C33: a fill sent after the Buy or Sell packet of its trace id was fanned
\* out is paired with that decision and never treated as an orphan.
C33_FillsArePaired == decay_log.op = "fill" => ~decay_log.orphan

\* C36: decide does not wait on a side-channel: a channel that holds its
\* capacity of packets loses its copy, every other channel gets its copy at
\* the back, and decide returns its decision as it made it.
C36_FullChannelDropsItsCopy ==
    [][(fan_log.op # "decide" /\ fan_log'.op = "decide")
          => /\ fan_log'.returned = fan_log'.decision
             /\ \A c \in SideChannels :
                  IF Len(side_channels[c]) >= ChannelCapacity
                  THEN side_channels'[c] = side_channels[c]
                  ELSE /\ Len(side_channels'[c]) = Len(side_channels[c]) + 1
                       /\ SubSeq(side_channels'[c], 1, Len(side_channels[c]))
                            = side_channels[c]
                       /\ side_channels'[c][Len(side_channels'[c])].decision
                            = debug_action(fan_log'.decision)]_vars

\* decide found the forensic channel full: the scribe lost its copy, the
\* mirror and the decay monitor got theirs.
C36_Witness ==
    /\ fan_log.op = "decide"
    /\ fan_log.full = {"forensic"}
    /\ fan_log.took = {"mirror", "decay"}
    /\ fan_log.returned = [action |-> "Buy", size |-> 50]

\* C35: a matched fill whose decision was taken at |jerk| > 50 is filtered
\* out of the decay statistics: processing it leaves the rolling average
\* decay as it was.
C35_FilteredFillKeepsAverage ==
    [][(Len(decay_fill_rx') < Len(decay_fill_rx) /\ decay_log'.filtered)
          => decay_monitor'.rolling_decay = decay_monitor.rolling_decay]_vars

\* C34: whenever the rolling average decay of the monitor is above 15%, the
\* staircase is at tier 0.
C34_CriticalDecayDemotes ==
    decay_monitor.rolling_decay > DECAY_CRITICAL => staircase.current_tier = Q0

(***************************************************************************)
(* Specifications.                                                         *)
(***************************************************************************)

Init ==
    /\ SeqInit
    /\ StInit
    /\ RingInit
    /\ NullInit
    /\ OodaInit
    /\ IgnInit
    /\ AuthInit
    /\ MainInit
    /\ ShadowInit
    /\ PhysicsInit
    /\ RegimeInit
    /\ VitalityInit
    /\ FanoutInit

SeqNext ==
    \/ \E t \in OtherCallers : SeqOtherCall(t)
    \/ \E z \in BOOLEAN : SeqMainCycle(z)

StNext ==
    \/ StAdvance
    \/ \E b \in {10, 50} : StRegisterFill(b)
    \/ \E c \in {50, 90} : StTryPromote(c)
    \/ \E d \in {20} : StEmergencySlide(d)
    \/ StRegisterVeto

RingNext ==
    \/ WriteReadHead
    \/ WriteReadTail
    \/ WriteDrop
    \/ WriteSlot
    \/ WriteCommit
    \/ ReadHead
    \/ \E m \in 1..RingCapacity : ReadTail(m)
    \/ ReadSlot
    \/ ReadCommit

NullNext ==
    \/ \E e \in FirewallErrors, ctx \in Contexts : OrientRejected(e, ctx)
    \/ \E ctx \in Contexts : OrientValid(ctx)
    \/ \E cause \in BlindCauses, ctx \in Contexts : OrientBlind(cause, ctx)
    \/ DrainGraves

OodaNext ==
    \/ OodaAdvance
    \/ \E j \in Jerks, m \in Markets :
          ProvisionalUpdate(PhysicsOf(0, j, m.entropy, m.efficiency_index))
    \/ \E a \in Accelerations, j \in Jerks, m \in Markets,
          s \in Sentiments, b \in Biases, w \in OmegaRatios :
          Decide([physics |-> PhysicsOf(a, j, m.entropy, m.efficiency_index),
                  sentiment_score |-> s], b, w)

IgnNext ==
    \/ IgnAdvance
    \/ \E j \in Jitters : SentinelTick(j)
    \/ IgnLaunch
    \/ \E m \in BOOLEAN : IgnUpdate(m)
    \/ IgnConfirmPenny
    \/ IgnConfirmGemma
    \/ IgnAbort

\* The staircase and the core side by side: vetoes and the clock on one,
\* decide on stable physics on the other.
SizingNext ==
    \/ StAdvance
    \/ StRegisterVeto
    \/ OodaAdvance
    \/ \E a \in Accelerations, s \in {None, Some(50)} :
          Decide([physics |-> PhysicsOf(a, 5, 50, 95), sentiment_score |-> s],
                 "Neutral", 12)

SpecSizing == Init /\ [][SizingNext]_vars

\* The core's decide and act, the three actors and the fills.
FanoutNext ==
    \/ \E d \in {default_hold, [action |-> "Buy", size |-> 50]} : CoreDecide(1, d)
    \/ CoreAct
    \/ CorePaused
    \/ \E c \in {"forensic", "mirror"} : ActorRecv(c)
    \/ SendFill(1, 118)
    \/ MonitorRecvDecision
    \/ MonitorRecvFill

SpecFanout == Init /\ [][FanoutNext]_vars

\* The decay monitor fed as its tests feed it.
DecayNext ==
    \/ \E t \in TraceIds, jerk \in {0, 100} : HarnessSendDecision(t, "BUY", jerk)
    \/ \E t \in TraceIds : SendFill(t, 118)
    \/ MonitorRecvDecision
    \/ MonitorRecvFill

SpecDecay == Init /\ [][DecayNext]_vars

\* The staircase driven through its fills and promotions next to a decay
\* monitor fed as its tests feed it.
DemotionNext ==
    \/ StRegisterFill(10)
    \/ StTryPromote(90)
    \/ HarnessSendDecision(1, "BUY", 0)
    \/ SendFill(1, 118)
    \/ MonitorRecvDecision
    \/ MonitorRecvFill

SpecDemotion == Init /\ [][DemotionNext]_vars

VitalityNext == \E elapsed \in CycleTimes : SentinelMeasure(elapsed)

SpecVitality == Init /\ [][VitalityNext]_vars

RegimeNext ==
    \/ \E n \in Confirmations : RegimeNew(n)
    \/ \E snapshot \in Snapshots : RegimeUpdate(snapshot)

SpecRegime == Init /\ [][RegimeNext]_vars

PhysicsNext == \E tape \in Tapes : PhysicsTick(tape)

SpecPhysics == Init /\ [][PhysicsNext]_vars

ShadowNext ==
    \/ ShadowAdvance
    \/ \E mark \in Marks : ShadowCheckFills(mark)
    \/ \E d \in ShadowDecisions, mark \in Marks, reading \in SyncReadings :
          Act(d, mark, reading)

SpecShadow == Init /\ [][ShadowNext]_vars

AuthNext ==
    \/ \E cmd \in Commands : BridgeSend(cmd)
    \/ BridgeCheck

SpecAuthority == Init /\ [][AuthNext]_vars

CommandPathNext ==
    \/ \E cmd \in Commands : ServerInject(cmd)
    \/ PollIntervention

SpecCommandPath ==
    Init /\ [][CommandPathNext]_vars /\ WF_vars(PollIntervention)

MainNext ==
    \/ IgnAdvance
    \/ IgnConfirmPenny
    \/ IgnConfirmGemma
    \/ ApiIgnitionRequest
    \/ OriginGuardVeto
    \/ CycleKilled
    \/ CycleVetoed
    \/ \E incoming \in MainIncoming : CycleIngestClosed(incoming)
    \/ \E incoming \in MainIncoming, j \in MainJitters, eq \in Equities :
          CycleRun(incoming, j, eq, None, {0, MaxGraves})

SovereignNext ==
    \/ IgnAdvance
    \/ IgnConfirmPenny
    \/ IgnConfirmGemma
    \/ ApiIgnitionRequest
    \/ CycleKilled
    \/ CycleVetoed
    \/ \E incoming \in Incoming, j \in SovereignJitters, eq \in SovereignEquities,
          s \in SovereignSentiments : CycleRun(incoming, j, eq, s, {0})

\* The loop as main runs it, with the inputs that reach it: the clock, the
\* launch request of the API, and cycles with a calm sentinel, market data
\* and nothing, Pause or Resume in the polled channel.  Nothing in the
\* program calls confirm_penny_trade or confirm_gemma_blessing.
LoopCycle ==
    \E incoming \in MainIncoming, j \in SovereignJitters,
       eq \in SovereignEquities, s \in SovereignSentiments :
        CycleRun(incoming, j, eq, s, {0})

LoopNext ==
    \/ IgnAdvance
    \/ ApiIgnitionRequest
    \/ LoopCycle

\* The clock runs, the launch is requested and the loop keeps cycling.
SpecLoop ==
    /\ Init
    /\ [][LoopNext]_vars
    /\ WF_vars(IgnAdvance)
    /\ WF_vars(ApiIgnitionRequest)
    /\ WF_vars(LoopCycle)

SpecSovereign == Init /\ [][SovereignNext]_vars

SpecMain == Init /\ [][MainNext]_vars

SpecIgnition == Init /\ [][IgnNext]_vars

SpecOoda == Init /\ [][OodaNext]_vars

SpecNullifier == Init /\ [][NullNext]_vars

SpecRing == Init /\ [][RingNext]_vars

SpecSequencer == Init /\ [][SeqNext]_vars

SpecStaircase == Init /\ [][StNext]_vars

Next ==
    \/ SeqNext
    \/ StNext
    \/ RingNext
    \/ NullNext
    \/ OodaNext
    \/ IgnNext
    \/ MainNext
    \/ AuthNext
    \/ CommandPathNext
    \/ SovereignNext
    \/ ShadowNext
    \/ SizingNext
    \/ LoopNext
    \/ PhysicsNext
    \/ RegimeNext
    \/ VitalityNext
    \/ FanoutNext
    \/ DecayNext
    \/ DemotionNext

Spec == Init /\ [][Next]_vars

====
